---- MODULE Spec2Model ----
(***************************************************************************)
(* Model of the NUVQL query builders of the Nuvix web SDK:                 *)
(*   - TableQueryBuilder (src/src/builders/table.ts:364-1149, the variant  *)
(*     with private readonly state and _clone),                           *)
(*   - the free and/or/not helpers and NuvqlFilter (src/unnamed/part_006), *)
(*   - Client.call (src/src/client.ts:433-482) as the transport.           *)
(*                                                                         *)
(* A text is a sequence of atoms.  An atom is one piece of a template      *)
(* literal (".eq(", ",", "select="), an identifier, one digit, or one      *)
(* character (or run of ordinary characters) of a string value.            *)
(***************************************************************************)
EXTENDS Integers, Sequences, FiniteSets, TLC

VARIABLES heap, last, requests, reply, safeResponse, nf, fmtIn, fmtOut, descriptors, lastColumn,
          inPlace, lastInPlace, collections, lastCollection, realtime, closures, upload

columnVars == <<descriptors, lastColumn>>

inPlaceVars == <<inPlace, lastInPlace>>

collectionVars == <<collections, lastCollection>>

realtimeVars == <<realtime, closures>>

uploadVars == <<upload>>

vars ==
  <<heap, last, requests, reply, safeResponse, nf, fmtIn, fmtOut, columnVars, inPlaceVars,
    collectionVars, realtimeVars, uploadVars>>

\* The variables of the builders, the filter, the formatter and the transport.
builderVars ==
  <<heap, last, requests, reply, safeResponse, nf, fmtIn, fmtOut, columnVars, inPlaceVars,
    collectionVars>>

(***************************************************************************)
(* Bounds of the model.                                                    *)
(***************************************************************************)
MaxBuilders == 3
MaxCalls == 2
MaxRows == 2
MaxStrLen == 3
MaxFilterConds == 2

(***************************************************************************)
(* Text helpers (Array.prototype.join, filter(Boolean)).                   *)
(***************************************************************************)
RECURSIVE JoinTexts(_, _)
JoinTexts(texts, sep) ==
  IF Len(texts) = 0 THEN <<>>
  ELSE IF Len(texts) = 1 THEN texts[1]
  ELSE texts[1] \o <<sep>> \o JoinTexts(Tail(texts), sep)

RECURSIVE FilterNonEmpty(_)
FilterNonEmpty(texts) ==
  IF Len(texts) = 0 THEN <<>>
  ELSE IF texts[1] = <<>> THEN FilterNonEmpty(Tail(texts))
  ELSE <<texts[1]>> \o FilterNonEmpty(Tail(texts))

RECURSIVE FilterNotStar(_)
FilterNotStar(texts) ==
  IF Len(texts) = 0 THEN <<>>
  ELSE IF texts[1] = <<"*">> THEN FilterNotStar(Tail(texts))
  ELSE <<texts[1]>> \o FilterNotStar(Tail(texts))

RECURSIVE Flatten(_)
Flatten(texts) ==
  IF Len(texts) = 0 THEN <<>> ELSE texts[1] \o Flatten(Tail(texts))

(***************************************************************************)
(* JavaScript values that reach the Value Formatter.                       *)
(***************************************************************************)
JsValue(t, s, n, b, ymd, items) ==
  [t |-> t, s |-> s, n |-> n, b |-> b, ymd |-> ymd, items |-> items]

Null == JsValue("null", <<>>, 0, FALSE, <<0, 0, 0>>, <<>>)
Undefined == JsValue("undefined", <<>>, 0, FALSE, <<0, 0, 0>>, <<>>)
Str(s) == JsValue("string", s, 0, FALSE, <<0, 0, 0>>, <<>>)
Num(n) == JsValue("number", <<>>, n, FALSE, <<0, 0, 0>>, <<>>)
Bool(b) == JsValue("boolean", <<>>, 0, b, <<0, 0, 0>>, <<>>)
DateV(y, m, d) == JsValue("date", <<>>, 0, FALSE, <<y, m, d>>, <<>>)
Arr(items) == JsValue("array", <<>>, 0, FALSE, <<0, 0, 0>>, items)

Digit(d) == CASE d = 0 -> "0" [] d = 1 -> "1" [] d = 2 -> "2" [] d = 3 -> "3"
              [] d = 4 -> "4" [] d = 5 -> "5" [] d = 6 -> "6" [] d = 7 -> "7"
              [] d = 8 -> "8" [] d = 9 -> "9"

RECURSIVE NatToString(_)
NatToString(n) ==
  IF n < 10 THEN <<Digit(n)>> ELSE NatToString(n \div 10) \o <<Digit(n % 10)>>

\* String(value) of an integral number.
NumberToString(n) == IF n < 0 THEN <<"-">> \o NatToString(0 - n) ELSE NatToString(n)

RECURSIVE PadStart(_, _)
PadStart(text, width) ==
  IF Len(text) >= width THEN text ELSE PadStart(<<"0">> \o text, width)

\* Date.prototype.toISOString of a UTC midnight.
ToISOString(ymd) ==
  PadStart(NatToString(ymd[1]), 4) \o <<"-">> \o PadStart(NatToString(ymd[2]), 2)
    \o <<"-">> \o PadStart(NatToString(ymd[3]), 2) \o <<"T00:00:00.000Z">>

\* value.replace(/'/g, "\\'")
RECURSIVE EscapeQuotes(_)
EscapeQuotes(s) ==
  IF Len(s) = 0 THEN <<>>
  ELSE (IF s[1] = "'" THEN <<"\\", "'">> ELSE <<s[1]>>) \o EscapeQuotes(Tail(s))

\* JSON.stringify of a string: double quotes and backslashes are escaped.
RECURSIVE JsonChars(_)
JsonChars(s) ==
  IF Len(s) = 0 THEN <<>>
  ELSE (IF s[1] = "\"" \/ s[1] = "\\" THEN <<"\\", s[1]>> ELSE <<s[1]>>)
         \o JsonChars(Tail(s))

RECURSIVE JsonStringify(_)
JsonStringify(v) ==
  CASE v.t = "string" -> <<"\"">> \o JsonChars(v.s) \o <<"\"">>
    [] v.t = "number" -> NumberToString(v.n)
    [] v.t = "boolean" -> IF v.b THEN <<"true">> ELSE <<"false">>
    [] v.t = "date" -> <<"\"">> \o ToISOString(v.ymd) \o <<"\"">>
    [] v.t = "array" ->
         <<"[">> \o JoinTexts([i \in 1..Len(v.items) |-> JsonStringify(v.items[i])], ",")
           \o <<"]">>
    [] OTHER -> <<"null">>

StartsWith(s, c) == Len(s) > 0 /\ s[1] = c
EndsWith(s, c) == Len(s) > 0 /\ s[Len(s)] = c

\* A test that looks at the opening quote only.
isColumnReferenceByPrefix(value) ==
  value.t = "string" /\ StartsWith(value.s, "\"")

isColumnReference(value) ==
  value.t = "string" /\ StartsWith(value.s, "\"") /\ EndsWith(value.s, "\"")

\* A formatter that wraps a string in quotes without escaping the quotes inside it.
formatValueUnescaped(value, isColRef) ==
  IF isColRef /\ value.t = "string" /\ StartsWith(value.s, "\"") /\ EndsWith(value.s, "\"")
  THEN value.s
  ELSE CASE value.t = "null" \/ value.t = "undefined" -> <<"null">>
         [] value.t = "string" -> <<"'">> \o value.s \o <<"'">>
         [] value.t = "boolean" -> IF value.b THEN <<"true">> ELSE <<"false">>
         [] value.t = "number" -> NumberToString(value.n)
         [] value.t = "date" -> <<"'">> \o ToISOString(value.ymd) \o <<"'">>
         [] OTHER -> <<"'">> \o JsonStringify(value) \o <<"'">>

formatValue(value, isColRef) ==
  IF isColRef /\ value.t = "string" /\ StartsWith(value.s, "\"") /\ EndsWith(value.s, "\"")
  THEN value.s
  ELSE CASE value.t = "null" \/ value.t = "undefined" -> <<"null">>
         [] value.t = "string" -> <<"'">> \o EscapeQuotes(value.s) \o <<"'">>
         [] value.t = "boolean" -> IF value.b THEN <<"true">> ELSE <<"false">>
         [] value.t = "number" -> NumberToString(value.n)
         [] value.t = "date" -> <<"'">> \o ToISOString(value.ymd) \o <<"'">>
         [] OTHER -> <<"'">> \o EscapeQuotes(JsonStringify(value)) \o <<"'">>

formatSpecialValue(value) ==
  IF value.t = "null" \/ value = Str(<<"null">>) THEN <<"null">>
  ELSE IF value = Str(<<"not_null">>) THEN <<"not_null">>
  ELSE IF value.t = "boolean" THEN (IF value.b THEN <<"true">> ELSE <<"false">>)
  ELSE formatValue(value, FALSE)

(***************************************************************************)
(* Condition model: NuvqlFilterCondition and NuvqlLogicalCondition.        *)
(***************************************************************************)
LogicalOperators == {"and", "or", "not"}

FilterCondition(column, operator, value, isColRef) ==
  [column |-> column, operator |-> operator, value |-> value,
   isColumnReference |-> isColRef, conditions |-> <<>>]

LogicalCondition(operator, conditions) ==
  [column |-> "", operator |-> operator, value |-> Null,
   isColumnReference |-> FALSE, conditions |-> conditions]

FormatList(value) ==
  IF value.t = "array"
  THEN JoinTexts([i \in 1..Len(value.items) |-> formatValue(value.items[i], FALSE)], ",")
  ELSE formatValue(value, FALSE)

\* const [min, max] = Array.isArray(value) ? value : [value, value]
PairOf(value, i) ==
  IF value.t = "array"
  THEN (IF i <= Len(value.items) THEN value.items[i] ELSE Undefined)
  ELSE value

RECURSIVE buildCondition(_)
buildCondition(condition) ==
  IF condition.operator \in LogicalOperators
  THEN <<condition.operator \o "(">>
         \o JoinTexts([i \in 1..Len(condition.conditions) |->
                         buildCondition(condition.conditions[i])], ",")
         \o <<")">>
  ELSE LET column == condition.column
           operator == condition.operator
           value == condition.value
           fv == formatValue(value, condition.isColumnReference)
       IN CASE operator \in {"eq", "neq", "gt", "gte", "lt", "lte", "like", "ilike",
                             "contains", "startswith", "endswith"} ->
                 <<column, "." \o operator \o "(">> \o fv \o <<")">>
            [] operator \in {"in", "nin"} ->
                 <<column, "." \o operator \o "[">>
                   \o (IF value.t = "array" THEN FormatList(value) ELSE fv) \o <<"]">>
            [] operator \in {"between", "nbetween"} ->
                 <<column, "." \o operator \o "[">> \o formatValue(PairOf(value, 1), FALSE)
                   \o <<",">> \o formatValue(PairOf(value, 2), FALSE) \o <<"]">>
            [] operator \in {"is", "isnot"} ->
                 <<column, "." \o operator \o "(">> \o formatSpecialValue(value) \o <<")">>
            [] OTHER -> <<column, ".eq(">> \o fv \o <<")">>

(***************************************************************************)
(* TableQueryBuilder: configuration, state and serializer.                 *)
(***************************************************************************)
JoinOptions(table, as, flatten, kind, type) ==
  [present |-> TRUE, table |-> table, as |-> as, flatten |-> flatten,
   kind |-> kind, type |-> type]

\* config.joinOptions of a builder made by from(): undefined.
NoJoinOptions ==
  [present |-> FALSE, table |-> "", as |-> "", flatten |-> "absent",
   kind |-> "absent", type |-> "absent"]

NoJoinedTables == [x \in {} |-> NoJoinOptions]

TableQueryBuilder(tableName, schema, isJoinBuilder, joinOptions, parentTableName, selectedColumns, conditions, joins, joinedTables) ==
  [tableName |-> tableName, schema |-> schema, isJoinBuilder |-> isJoinBuilder,
   joinOptions |-> joinOptions, parentTableName |-> parentTableName,
   selectedColumns |-> selectedColumns, conditions |-> conditions,
   joins |-> joins, joinedTables |-> joinedTables]

\* Database.from(tableName): schema "public", no state.
From(tableName) ==
  TableQueryBuilder(tableName, "public", FALSE, NoJoinOptions, "",
                    <<>>, <<>>, <<>>, NoJoinedTables)

getConditions(b) == b.conditions

getJoinedTables(b) == b.joinedTables

\* const select = ... ; const filter = ... ; const joins = ... (table.ts 1012-1019)
selectText(b) ==
  IF Len(b.selectedColumns) = 0 THEN <<"*">> ELSE JoinTexts(b.selectedColumns, ",")

filterText(b) ==
  JoinTexts([i \in 1..Len(b.conditions) |-> buildCondition(b.conditions[i])], ",")

joinsText(b) == JoinTexts([i \in 1..Len(b.joins) |-> b.joins[i].query], ",")

\* A join branch that writes the kind suffix on a flatten join too.
joinFragmentKindOnFlatten(b, select, filter, joins) ==
  LET opts == b.joinOptions
      type == <<"$.join(", (IF opts.type = "absent" THEN "inner" ELSE opts.type), ")">>
      flatten == IF opts.flatten = "true" THEN <<"...">> ELSE <<>>
      kind == IF opts.kind # "absent"
              THEN <<".", (IF opts.kind = "undefined" THEN "many" ELSE opts.kind)>>
              ELSE <<>>
      alias == IF opts.as # "" THEN <<opts.as, ":">> ELSE <<>>
      conditions == FilterNonEmpty(<<filter, type>>)
      head == flatten \o alias \o <<b.tableName>> \o kind
                \o <<"{">> \o JoinTexts(conditions, ",") \o <<"}">>
      innerSelect == JoinTexts(FilterNotStar(<<select, joins>>), ",")
  IN IF select # <<"*">> \/ joins # <<>>
     THEN head \o <<"(">> \o (IF innerSelect = <<>> THEN <<"*">> ELSE innerSelect)
            \o <<")">>
     ELSE head

\* The branch of toString for a join builder.
joinFragment(b, select, filter, joins) ==
  LET opts == b.joinOptions
      type == <<"$.join(", (IF opts.type = "absent" THEN "inner" ELSE opts.type), ")">>
      flatten == IF opts.flatten = "true" THEN <<"...">> ELSE <<>>
      kind == IF flatten = <<>> /\ opts.kind # "absent"
              THEN <<".", (IF opts.kind = "undefined" THEN "many" ELSE opts.kind)>>
              ELSE <<>>
      alias == IF opts.as # "" THEN <<opts.as, ":">> ELSE <<>>
      conditions == FilterNonEmpty(<<filter, type>>)
      head == flatten \o alias \o <<b.tableName>> \o kind
                \o <<"{">> \o JoinTexts(conditions, ",") \o <<"}">>
      innerSelect == JoinTexts(FilterNotStar(<<select, joins>>), ",")
  IN IF select # <<"*">> \/ joins # <<>>
     THEN head \o <<"(">> \o (IF innerSelect = <<>> THEN <<"*">> ELSE innerSelect)
            \o <<")">>
     ELSE head

\* The branch of toString for a top-level builder.
topLevel(select, filter, joins) ==
  <<"select=">> \o JoinTexts(FilterNonEmpty(<<select, joins>>), ",")
    \o (IF filter # <<>> THEN <<"&filter=">> \o filter ELSE <<>>)

toString(b) ==
  IF b.isJoinBuilder /\ b.joinOptions.present
  THEN joinFragment(b, selectText(b), filterText(b), joinsText(b))
  ELSE topLevel(selectText(b), filterText(b), joinsText(b))

(***************************************************************************)
(* Builder objects live in a heap (a sequence of builder states); a method *)
(* call yields the heap after the call, the object it returns, the error   *)
(* it raises ("" for none) and the builders it handed to its callback.     *)
(***************************************************************************)
Result(h, ret, err, cb) == [h |-> h, ret |-> ret, err |-> err, cb |-> cb]

Alloc(h, b) == Result(Append(h, b), Len(h) + 1, "", <<>>)

Pick(newState, field, old) ==
  IF field \in DOMAIN newState THEN newState[field] ELSE old

_clone(h, id, newState) ==
  LET this == h[id]
  IN Alloc(h, TableQueryBuilder(this.tableName, this.schema, this.isJoinBuilder,
                                this.joinOptions, this.parentTableName,
                                Pick(newState, "selectedColumns", this.selectedColumns),
                                Pick(newState, "conditions", this.conditions),
                                Pick(newState, "joins", this.joins),
                                Pick(newState, "joinedTables", this.joinedTables)))

\* Arguments of select(): a string, or an object with one alias: column pair.
StringArg(col) == [k |-> "string", alias |-> "", col |-> col]
ObjectArg(alias, col) == [k |-> "object", alias |-> alias, col |-> col]

SelectionOf(arg) ==
  IF arg.k = "object" THEN <<arg.alias, ":">> \o arg.col ELSE arg.col

\* A select that adds to the selection list instead of replacing it.
selectExtending(h, id, columns) ==
  _clone(h, id, [selectedColumns |->
                   h[id].selectedColumns
                     \o [i \in 1..Len(columns) |-> SelectionOf(columns[i])]])

select(h, id, columns) ==
  IF Len(columns) = 0
  THEN _clone(h, id, [selectedColumns |-> <<>>])
  ELSE _clone(h, id, [selectedColumns |->
                        [i \in 1..Len(columns) |-> SelectionOf(columns[i])]])

\* A builder that pushes onto its own condition list and returns itself.
addConditionInPlace(h, id, condition) ==
  Result([h EXCEPT ![id].conditions = Append(@, condition)], id, "", <<>>)

addCondition(h, id, condition) ==
  _clone(h, id, [conditions |-> Append(h[id].conditions, condition)])

addLogicalCondition(h, id, condition) ==
  _clone(h, id, [conditions |-> Append(h[id].conditions, condition)])

ReferenceOperators ==
  {"eq", "neq", "gt", "gte", "lt", "lte", "like", "ilike", "contains", "startswith",
   "endswith"}

PlainOperators == {"in", "nin", "between", "nbetween", "is", "isnot"}

\* eq, neq, ... endswith flag a column reference; in, nin, between, is do not.
predicate(h, id, operator, column, value) ==
  addCondition(h, id,
    FilterCondition(column, operator, value,
                    IF operator \in ReferenceOperators THEN isColumnReference(value)
                    ELSE FALSE))

\* Calls a callback can chain on the builder it receives.
PredicateCall(operator, column, value) ==
  [m |-> operator, column |-> column, value |-> value, cols |-> <<>>,
   script |-> <<>>, opts |-> NoJoinOptions]
SelectCall(cols) ==
  [m |-> "select", column |-> "", value |-> Null, cols |-> cols,
   script |-> <<>>, opts |-> NoJoinOptions]
LogicalCall(operator, script) ==
  [m |-> operator, column |-> "", value |-> Null, cols |-> <<>>,
   script |-> script, opts |-> NoJoinOptions]
JoinCall(opts, script) ==
  [m |-> "join", column |-> "", value |-> Null, cols |-> <<>>,
   script |-> script, opts |-> opts]
OtherCall(m) ==
  [m |-> m, column |-> "", value |-> Null, cols |-> <<>>,
   script |-> <<>>, opts |-> NoJoinOptions]

Extend(f, k, v) == [x \in (DOMAIN f) \cup {k} |-> IF x = k THEN v ELSE f[x]]

\* new TableQueryBuilder(client, config, {joinedTables}) made by and/or/not.
NestedFilter(h, id) ==
  LET this == h[id]
  IN Alloc(h, TableQueryBuilder(this.tableName, this.schema, this.isJoinBuilder,
                                this.joinOptions, this.parentTableName,
                                <<>>, <<>>, <<>>, this.joinedTables))

\* and/or/not after callback(nestedFilter) has run.
logicalResult(id, operator, made, ran) ==
  LET nestedFilter == made.ret
      passed == <<made.h[nestedFilter]>>
  IN IF ran.err # "" THEN Result(ran.h, id, ran.err, passed)
     ELSE IF Len(getConditions(ran.h[nestedFilter])) > 0
     THEN [addLogicalCondition(ran.h, id,
             LogicalCondition(operator, getConditions(ran.h[nestedFilter])))
           EXCEPT !.cb = passed]
     ELSE Result(ran.h, id, "", passed)

\* new TableQueryBuilder(client, {tableName: table, ...}, {joinedTables}) made by join.
JoinBuilder(h, id, options) ==
  LET this == h[id]
  IN Alloc(h, TableQueryBuilder(options.table, this.schema, TRUE, options,
                                this.tableName, <<>>, <<>>, <<>>, this.joinedTables))

\* new TableQueryBuilder(client, config, {selectedColumns, conditions, joins: newJoins,
\* joinedTables: newJoinedTables}): the receiver's state with the two lists replaced.
withJoin(h, id, options, joinQueryString) ==
  LET this == h[id]
      joinName == IF options.as # "" THEN options.as ELSE options.table
  IN _clone(h, id,
            [joins |-> Append(this.joins, [name |-> joinName, query |-> joinQueryString]),
             joinedTables |-> Extend(this.joinedTables, joinName, options)])

\* A join that serializes the builder it made instead of the one the callback returned.
joinResultOfJoinBuilder(id, options, made, ran) ==
  IF ran.err # "" THEN Result(ran.h, id, ran.err, <<made.h[made.ret]>>)
  ELSE [withJoin(ran.h, id, options, toString(ran.h[made.ret]))
        EXCEPT !.cb = <<made.h[made.ret]>>]

\* join after callback(joinBuilder) has returned finalJoinBuilder.
joinResult(id, options, made, ran) ==
  IF ran.err # "" THEN Result(ran.h, id, ran.err, <<made.h[made.ret]>>)
  ELSE [withJoin(ran.h, id, options, toString(ran.h[ran.ret]))
        EXCEPT !.cb = <<made.h[made.ret]>>]

\* callback = b => b.call1(...).call2(...)...: each call is made on what the call
\* before it returned; a name the class does not define raises a TypeError.
RECURSIVE RunScript(_, _, _)

\* The rest of a chain after its first call returned r.
Then(r, rest) ==
  IF r.err # "" \/ Len(rest) = 0 THEN r ELSE RunScript(r.h, r.ret, rest)

RunScript(h, id, script) ==
  IF Len(script) = 0 THEN Result(h, id, "", <<>>)
  ELSE LET c == script[1]
       IN Then(CASE c.m = "select" -> select(h, id, c.cols)
                 [] c.m \in ReferenceOperators \cup PlainOperators ->
                      predicate(h, id, c.m, c.column, c.value)
                 [] c.m \in LogicalOperators ->
                      logicalResult(id, c.m, NestedFilter(h, id),
                                    RunScript(NestedFilter(h, id).h,
                                              NestedFilter(h, id).ret, c.script))
                 [] c.m = "join" ->
                      joinResult(id, c.opts, JoinBuilder(h, id, c.opts),
                                 RunScript(JoinBuilder(h, id, c.opts).h,
                                           JoinBuilder(h, id, c.opts).ret, c.script))
                 [] OTHER -> Result(h, id, "TypeError", <<>>),
               Tail(script))

ApplyCall(h, id, c) == RunScript(h, id, <<c>>)

\* and(callback), or(callback), not(callback)
logical(h, id, operator, script) == ApplyCall(h, id, LogicalCall(operator, script))

\* join(options, callback)
join(h, id, options, script) == ApplyCall(h, id, JoinCall(options, script))

(***************************************************************************)
(* Execution facade and transport.                                         *)
(***************************************************************************)
\* What a call resolves to or raises.
Outcome(t, rows, err, code) == [t |-> t, rows |-> rows, err |-> err, code |-> code]

NoOutcome == Outcome("none", <<>>, "", 0)
Rows(rows) == Outcome("list", rows, "", 0)
Row(i) == Outcome("row", <<i>>, "", 0)
JsNull == Outcome("null", <<>>, "", 0)
JsUndefined == Outcome("undefined", <<>>, "", 0)
Envelope(rows, err, code) == Outcome("envelope", rows, err, code)
Thrown(err, code) == Outcome("throw", <<>>, err, code)
TheBuilder(id) == Outcome("builder", <<id>>, "", 0)

\* Client.call: status >= 400 raises; safeResponse wraps both outcomes.
call(safe, status, rows, type) ==
  IF 400 <= status
  THEN (IF safe THEN Envelope(<<>>, "error", 0) ELSE Thrown(type, status))
  ELSE (IF safe THEN Envelope(rows, "", 0) ELSE Rows(rows))

\* results.length and results[0] of what execute() resolved to.
LengthOf(results) == IF results.t = "list" THEN Len(results.rows) ELSE -1
First(results) ==
  IF results.t = "list" /\ Len(results.rows) > 0 THEN Row(results.rows[1])
  ELSE JsUndefined

execute(response) == response

\* A single() that unwraps whenever there is at least one row.
singleFirstRow(response) ==
  LET results == execute(response)
  IN IF results.t = "throw" THEN results
     ELSE IF LengthOf(results) = 0 THEN Thrown("NO_RESULTS", 404)
     ELSE First(results)

single(response) ==
  LET results == execute(response)
  IN IF results.t = "throw" THEN results
     ELSE IF LengthOf(results) = 0 THEN Thrown("NO_RESULTS", 404)
     ELSE IF LengthOf(results) > 1 THEN Thrown("MULTIPLE_RESULTS", 400)
     ELSE First(results)

maybeSingle(response) ==
  LET results == execute(response)
  IN IF results.t = "throw" THEN results
     ELSE IF LengthOf(results) > 0 THEN First(results)
     ELSE JsNull

(***************************************************************************)
(* The query component: new URLSearchParams(text) and its toString().      *)
(***************************************************************************)
\* The characters of a serialized query: 'select=' and '&filter=' spelled out; every
\* other atom holds none of '&', '=', '+', '%' and stands for its own characters.
RECURSIVE Characters(_)
Characters(text) ==
  IF Len(text) = 0 THEN <<>>
  ELSE (CASE text[1] = "select=" -> <<"select", "=">>
          [] text[1] = "&filter=" -> <<"&", "filter", "=">>
          [] OTHER -> <<text[1]>>) \o Characters(Tail(text))

HexDigits ==
  {"0", "1", "2", "3", "4", "5", "6", "7", "8", "9", "A", "B", "C", "D", "E", "F"}

\* The character of the byte written %h1h2.
ByteOf(h1, h2) ==
  CASE <<h1, h2>> = <<"2", "0">> -> " "
    [] <<h1, h2>> = <<"2", "5">> -> "%"
    [] <<h1, h2>> = <<"2", "6">> -> "&"
    [] <<h1, h2>> = <<"2", "B">> -> "+"
    [] <<h1, h2>> = <<"3", "D">> -> "="
    [] <<h1, h2>> = <<"4", "1">> -> "A"
    [] OTHER -> "%" \o h1 \o h2

\* The urlencoded parser's decoding of a name or value: '+' is a space, %XX a byte.
RECURSIVE percentDecode(_)
percentDecode(s) ==
  IF Len(s) = 0 THEN <<>>
  ELSE IF s[1] = "+" THEN <<" ">> \o percentDecode(Tail(s))
  ELSE IF s[1] = "%" /\ Len(s) >= 3 /\ s[2] \in HexDigits /\ s[3] \in HexDigits
  THEN <<ByteOf(s[2], s[3])>> \o percentDecode(SubSeq(s, 4, Len(s)))
  ELSE <<s[1]>> \o percentDecode(Tail(s))

\* The urlencoded serializer's encoding of a name or value.
RECURSIVE percentEncode(_)
percentEncode(s) ==
  IF Len(s) = 0 THEN <<>>
  ELSE (CASE s[1] = " " -> <<"+">>
          [] s[1] = "%" -> <<"%", "2", "5">>
          [] s[1] = "&" -> <<"%", "2", "6">>
          [] s[1] = "+" -> <<"%", "2", "B">>
          [] s[1] = "=" -> <<"%", "3", "D">>
          [] OTHER -> <<s[1]>>) \o percentEncode(Tail(s))

\* The pieces of s between the occurrences of the character c.
RECURSIVE splitAt(_, _, _)
splitAt(s, c, piece) ==
  IF Len(s) = 0 THEN <<piece>>
  ELSE IF s[1] = c THEN <<piece>> \o splitAt(Tail(s), c, <<>>)
  ELSE splitAt(Tail(s), c, Append(piece, s[1]))

\* One name-value tuple of the parser: the piece is cut at its first '='.
parseTuple(piece) ==
  IF \E i \in 1..Len(piece) : piece[i] = "="
  THEN [name |-> percentDecode(splitAt(piece, "=", <<>>)[1]),
        value |-> percentDecode(SubSeq(piece, Len(splitAt(piece, "=", <<>>)[1]) + 2,
                                       Len(piece)))]
  ELSE [name |-> percentDecode(piece), value |-> <<>>]

\* new URLSearchParams(init): the list of name-value tuples of the string init.
URLSearchParams(init) ==
  [i \in 1..Len(FilterNonEmpty(splitAt(init, "&", <<>>))) |->
     parseTuple(FilterNonEmpty(splitAt(init, "&", <<>>))[i])]

\* URLSearchParams.prototype.toString()
URLSearchParams_toString(list) ==
  JoinTexts([i \in 1..Len(list) |->
               percentEncode(list[i].name) \o <<"=">> \o percentEncode(list[i].value)],
            "&")

\* config.endpoint of a new Client.
endpoint == "https://api.nuvix.in/v1"

\* The request execute() hands to Client.call: the URL without its query
\* component, the text given to URLSearchParams, and the query component, url.search.
Request(b) ==
  [method |-> "GET", schema |-> b.schema, tableName |-> b.tableName,
   url |-> <<endpoint, "/schemas/", b.schema, "/", b.tableName>>,
   queryString |-> toString(b), body |-> "undefined",
   search |-> URLSearchParams_toString(URLSearchParams(Characters(toString(b))))]

\* The methods the class body defines; it defines no then().
TableQueryBuilderMethods ==
  {"select", "join"} \cup ReferenceOperators \cup PlainOperators
    \cup {"isNull", "isNotNull"} \cup LogicalOperators
    \cup {"getConditions", "getJoinedTables", "getJoinedTableColumns", "execute",
          "single", "maybeSingle", "toString"}

(***************************************************************************)
(* State.                                                                  *)
(*   heap          the builders made so far                                *)
(*   last          the last call: its name, receiver, what it returned or  *)
(*                 raised, the builders it handed to its callback, what it *)
(*                 resolved to and how many transport calls it made        *)
(*   requests      the requests handed to Client.call                      *)
(*   reply         what Client.call answered to the last request           *)
(*   safeResponse  the client's safeResponse flag                          *)
(*   nf            the condition list of a NuvqlFilter                     *)
(*   fmtIn, fmtOut a value given to the Value Formatter and its text       *)
(*   descriptors   the ColumnBuilder instances made so far                 *)
(*   lastColumn    the last call of column, as or cast                     *)
(*   inPlace       the objects of the builder variant that changes itself  *)
(*   lastInPlace   the last call on a builder of that variant              *)
(*   collections   the descriptor lists of the CollectionQueryBuilders     *)
(*   lastCollection the last call on one, and what find() handed over      *)
(*   realtime      the client's realtime record, with its pending timers   *)
(*   closures      the channel lists of the unsubscribe functions returned *)
(*   upload        the chunkedUpload in progress and the calls it made     *)
(***************************************************************************)
Last(op, recv, ret, err, cb, arg, out, sent) ==
  [op |-> op, recv |-> recv, ret |-> ret, err |-> err, cb |-> cb, arg |-> arg,
   out |-> out, sent |-> sent]

NoFormat == [done |-> FALSE, flag |-> FALSE, text |-> <<>>]

(***************************************************************************)
(* ColumnBuilder: the Column descriptor made by column(name).              *)
(***************************************************************************)
MaxDescriptors == 3

\* An absent alias or cast type (undefined) is "".
ColumnBuilder(columnName, alias, castType, frozen) ==
  [column |-> columnName, alias |-> alias, castType |-> castType, frozen |-> frozen]

_validateNotFrozen(d) == IF d.frozen THEN "FROZEN_COLUMN_BUILDER" ELSE ""

_validateCastCompatibility(castType) == IF castType = "" THEN "INVALID_CAST_TYPE" ELSE ""

column_of(name) == ColumnBuilder(name, "", "", FALSE)

\* as(alias) on descriptor d: the error raised ("" for none) and the descriptor made.
column_as(d, alias) ==
  [err |-> _validateNotFrozen(d),
   made |-> ColumnBuilder(d.column, alias, d.castType, FALSE)]

\* A cast that leaves the descriptor it makes open to further calls.
column_castUnfrozen(d, castType) ==
  [err |-> IF _validateNotFrozen(d) # "" THEN _validateNotFrozen(d)
           ELSE _validateCastCompatibility(castType),
   made |-> ColumnBuilder(d.column, d.alias, castType, FALSE)]

column_cast(d, castType) ==
  [err |-> IF _validateNotFrozen(d) # "" THEN _validateNotFrozen(d)
           ELSE _validateCastCompatibility(castType),
   made |-> ColumnBuilder(d.column, d.alias, castType, TRUE)]

ColumnCall(op, recv, ret, err, arg) ==
  [op |-> op, recv |-> recv, ret |-> ret, err |-> err, arg |-> arg]

NoColumnCall == ColumnCall("none", 0, 0, "", "")

\* A call on descriptor recv whose result r is kept when nothing was raised.
ColumnStep(op, recv, arg, r) ==
  /\ Len(descriptors) < MaxDescriptors
  /\ descriptors' = (IF r.err = "" THEN Append(descriptors, r.made) ELSE descriptors)
  /\ lastColumn' = ColumnCall(op, recv, (IF r.err = "" THEN Len(descriptors) + 1 ELSE 0),
                              r.err, arg)
  /\ UNCHANGED <<heap, last, requests, reply, safeResponse, nf, fmtIn, fmtOut, inPlaceVars, collectionVars, realtimeVars, uploadVars>>

Column(name) == ColumnStep("column", 0, name, [err |-> "", made |-> column_of(name)])

As(d, alias) == ColumnStep("as", d, alias, column_as(descriptors[d], alias))

Cast(d, castType) == ColumnStep("cast", d, castType, column_cast(descriptors[d], castType))

(***************************************************************************)
(* The TableQueryBuilder variant whose methods change the receiver and     *)
(* return it.  A store holds the builders and, apart from them, the        *)
(* joinedTables objects, which a builder holds by reference.               *)
(***************************************************************************)
MaxChain == 2

\* new TableQueryBuilder(client, config) appended to store S: empty lists and an
\* own empty joinedTables object.
inPlace_new(S) ==
  [objects |-> Append(S.objects, [conditions |-> <<>>, joins |-> <<>>,
                                  joinedTables |-> Len(S.tables) + 1]),
   tables |-> Append(S.tables, {})]

\* client.database.from("users").
inPlace_from == inPlace_new([objects |-> <<>>, tables |-> <<>>])

inPlace_addCondition(S, id, condition) ==
  [S EXCEPT !.objects[id].conditions = Append(@, condition)]

\* toString() of join builder jb: joinOptions with table, as and type.
inPlace_joinQuery(jb, opts) ==
  (IF opts.as # "" THEN <<opts.as, ":">> ELSE <<>>) \o <<opts.table, "{">>
    \o JoinTexts([i \in 1..Len(jb.conditions) |-> buildCondition(jb.conditions[i])], ",")
    \o <<",$.join(", (IF opts.type = "absent" THEN "left" ELSE opts.type), ")}(", "*", ")">>

\* The end of join: the callback has run on join builder jb of store S.
inPlace_joinEnd(S, id, jb, opts) ==
  [S EXCEPT !.objects[id].joins = Append(@, inPlace_joinQuery(S.objects[jb], opts)),
            !.tables[S.objects[id].joinedTables] =
               @ \cup {IF opts.as # "" THEN opts.as ELSE opts.table}]

\* The start of and/or/not: nestedFilter is a new builder whose joinedTables is
\* then set to the receiver's object.
inPlace_nestedFilter(S, id) ==
  [inPlace_new(S) EXCEPT !.objects[Len(S.objects) + 1].joinedTables =
                           S.objects[id].joinedTables]

\* The end of and/or/not: the callback has run on nestedFilter nf of store S.
inPlace_logicalEnd(S, id, nested, operator) ==
  IF Len(S.objects[nested].conditions) > 0
  THEN inPlace_addCondition(S, id, LogicalCondition(operator, S.objects[nested].conditions))
  ELSE S

\* The calls of a callback, one after the other on the builder it was handed
\* (every call returns that builder).
RECURSIVE inPlace_run(_, _, _)
inPlace_call(S, id, c) ==
  IF c.m = "join"
  THEN inPlace_joinEnd(inPlace_run(inPlace_new(S), Len(S.objects) + 1, c.script),
                       id, Len(S.objects) + 1, c.opts)
  ELSE IF c.m \in LogicalOperators
  THEN inPlace_logicalEnd(inPlace_run(inPlace_nestedFilter(S, id), Len(S.objects) + 1,
                                      c.script),
                          id, Len(S.objects) + 1, c.m)
  ELSE inPlace_addCondition(S, id,
         FilterCondition(c.column, c.m, c.value, isColumnReference(c.value)))

inPlace_run(S, id, script) ==
  IF Len(script) = 0 THEN S
  ELSE inPlace_run(inPlace_call(S, id, script[1]), id, Tail(script))

InPlaceCall(op, recv, arg) == [op |-> op, recv |-> recv, ret |-> recv, arg |-> arg]

\* One call c on builder b; the builders made for callbacks are garbage after it.
InPlace(b, c) ==
  /\ Len(inPlace.objects[b].conditions) + Len(inPlace.objects[b].joins) < MaxChain
  /\ inPlace' = [objects |-> SubSeq(inPlace_call(inPlace, b, c).objects, 1,
                                    Len(inPlace.objects)),
                 tables |-> SubSeq(inPlace_call(inPlace, b, c).tables, 1,
                                   Len(inPlace.tables))]
  /\ lastInPlace' = InPlaceCall(c.m, b, c)
  /\ UNCHANGED <<heap, last, requests, reply, safeResponse, nf, fmtIn, fmtOut, columnVars, collectionVars, realtimeVars, uploadVars>>

(***************************************************************************)
(* CollectionQueryBuilder: a builder is its list of descriptors.  *)
(***************************************************************************)
MaxCollectionBuilders == 4

\* new Query(method, attribute, values).toString(): a string that holds the method,
\* the attribute and the values (a number, attribute names or nested queries).
Query(method, attribute, num, attrs, nested) ==
  [form |-> "string", method |-> method, attribute |-> attribute, num |-> num,
   attrs |-> attrs, nested |-> nested]

\* JSON.parse of a string made by Query.toString.
JSON_parse(q) == [q EXCEPT !.form = "object"]

\* A descriptor: {kind: "query", payload}, {kind: "select", attributes},
\* {kind: "populate", attr, nested} or {kind: "populateAll"}; the members a kind
\* lacks are empty.
Descriptor(kind, payload, attributes, attr, nested) ==
  [kind |-> kind, payload |-> payload, attributes |-> attributes, attr |-> attr,
   nested |-> nested]

\* The query string one descriptor contributes, given those of its nested ones.
descriptorQuery(d, nestedQueries) ==
  CASE d.kind = "query" -> d.payload
    [] d.kind = "select" -> Query("select", "", 0, d.attributes, <<>>)
    [] d.kind = "populate" ->
         Query("populate", d.attr, 0, <<>>,
               [i \in 1..Len(nestedQueries) |-> JSON_parse(nestedQueries[i])])
    [] OTHER -> Query("populate", "*", 0, <<>>, <<>>)

\* The loop of processDescriptors over the descriptors left, with its three lists.
RECURSIVE processDescriptors(_)
RECURSIVE processLoop(_, _, _, _)
processLoop(left, queries, selectQueries, populateQueries) ==
  IF Len(left) = 0 THEN queries \o selectQueries \o populateQueries
  ELSE IF left[1].kind = "query"
  THEN processLoop(Tail(left), Append(queries, left[1].payload), selectQueries,
                   populateQueries)
  ELSE IF left[1].kind = "select"
  THEN processLoop(Tail(left), queries,
                   Append(selectQueries, descriptorQuery(left[1], <<>>)), populateQueries)
  ELSE processLoop(Tail(left), queries, selectQueries,
                   Append(populateQueries,
                          descriptorQuery(left[1], processDescriptors(left[1].nested))))

\* A serializer that emits the query strings in the order of the calls.
RECURSIVE processDescriptorsInCallOrder(_)
processDescriptorsInCallOrder(ds) ==
  [i \in 1..Len(ds) |->
     descriptorQuery(ds[i], processDescriptorsInCallOrder(ds[i].nested))]

processDescriptors(ds) == processLoop(ds, <<>>, <<>>, <<>>)

\* A chain call on builder b: _clone([...this.descriptors, d]).
Chain(b, op, d) ==
  /\ Len(collections) < MaxCollectionBuilders
  /\ collections' = Append(collections, Append(collections[b], d))
  /\ lastCollection' = [op |-> op, recv |-> b, ret |-> Len(collections) + 1, out |-> <<>>]
  /\ UNCHANGED <<heap, last, requests, reply, safeResponse, nf, fmtIn, fmtOut, columnVars,
                 inPlaceVars, realtimeVars, uploadVars>>

\* find(): the query strings buildQueryStrings() hands to listDocuments.
Find(b) ==
  /\ lastCollection' = [op |-> "find", recv |-> b, ret |-> b,
                        out |-> processDescriptors(collections[b])]
  /\ UNCHANGED <<heap, last, requests, reply, safeResponse, nf, fmtIn, fmtOut, columnVars,
                 inPlaceVars, collections, realtimeVars, uploadVars>>

(***************************************************************************)
(* FnQueryBuilder: the builder of a function (RPC) call.                   *)
(***************************************************************************)
\* Client.withSafeResponse around a callback that resolved to or threw res.
withSafeResponse(safe, res) ==
  IF res.t = "throw" THEN (IF safe THEN Envelope(<<>>, res.err, res.code) ELSE res)
  ELSE IF safe THEN Outcome("envelope", <<res>>, "", 0)
  ELSE res

\* The request of call(args) on the builder of function fn in schema "public".
FnRequest(functionName, args) ==
  [method |-> "POST", schema |-> "public", tableName |-> functionName,
   url |-> <<endpoint, "/schemas/", "public", "/fn/", functionName>>,
   queryString |-> <<>>, body |-> args, search |-> <<>>]

\* A call(args) that hands back what Client.call answered as it is.
fn_callUnwrapped(safe, answer) == answer

\* What call(args) resolves to or rejects with, given what Client.call answered.
fn_call(safe, answer) == withSafeResponse(safe, answer)

\* call(args), and then() for an await, which is call() without arguments.
FnCall(op, args, answer) ==
  /\ Len(requests) < MaxCalls
  /\ requests' = Append(requests, FnRequest("stats", args))
  /\ reply' = answer
  /\ last' = Last(op, 1, 1, "", <<>>, [OtherCall(op) EXCEPT !.column = args],
                  fn_call(safeResponse, answer), Len(requests') - Len(requests))
  /\ UNCHANGED <<heap, safeResponse, nf, fmtIn, fmtOut, columnVars, inPlaceVars,
                 collectionVars, realtimeVars, uploadVars>>

\* execute, join, single, maybeSingle, insert, update, delete: each throws an Error.
FnRaise(m) ==
  /\ m \in {"execute", "join", "single", "maybeSingle", "insert", "update", "delete"}
  /\ last' = Last(m, 1, 1, "Error", <<>>, OtherCall(m), Thrown("Error", 0),
                  Len(requests) - Len(requests))
  /\ UNCHANGED <<heap, requests, reply, safeResponse, nf, fmtIn, fmtOut, columnVars,
                 inPlaceVars, collectionVars, realtimeVars, uploadVars>>

(***************************************************************************)
(* Client.realtime, subscribe and the unsubscribe functions.               *)
(***************************************************************************)
MaxSubscriptions == 2
MaxDisconnects == 2

NoSocket == [url |-> <<>>, state |-> "undefined"]

\* channels and subscriptions keep insertion order (Set, Map); backoff holds the
\* delays of the pending reconnect timers, made counts the sockets created, and op
\* names the last call or event.
NewRealtime ==
  [socket |-> NoSocket, timeout |-> FALSE, url |-> <<>>, channels |-> <<>>,
   subscriptions |-> <<>>, subscriptionsCounter |-> 0, reconnect |-> TRUE,
   reconnectAttempts |-> 0, lastMessage |-> "undefined", backoff |-> <<>>,
   made |-> 0, dropped |-> 0, op |-> "new", key |-> 0]

Elements(f) == {f[i] : i \in DOMAIN f}

getTimeout(rt) ==
  CASE rt.reconnectAttempts < 5 -> 1000
    [] rt.reconnectAttempts < 15 -> 5000
    [] rt.reconnectAttempts < 100 -> 10000
    [] OTHER -> 60000

\* connect(): the 50 ms timer is set again.
connect(rt) == [rt EXCEPT !.timeout = TRUE]

\* The 'disconnect' handler of a socket.
onDisconnect(rt) ==
  IF ~rt.reconnect \/ rt.lastMessage = "error1008"
  THEN [rt EXCEPT !.reconnect = TRUE]
  ELSE [rt EXCEPT !.backoff = Append(@, getTimeout(rt))]

\* socket?.close() and socket?.disconnect(): a connected socket emits 'disconnect'.
closeSocket(rt) ==
  IF rt.socket.state = "undefined" THEN rt
  ELSE IF rt.socket.state = "open"
  THEN onDisconnect([rt EXCEPT !.socket.state = "closed"])
  ELSE [rt EXCEPT !.socket.state = "closed"]

\* The URL is a function of the project and of the channels in insertion order.
createSocket(rt) ==
  IF Len(rt.channels) < 1 THEN closeSocket([rt EXCEPT !.reconnect = FALSE])
  ELSE IF rt.channels # rt.url \/ rt.socket.state = "undefined"
  THEN [closeSocket([rt EXCEPT !.url = rt.channels])
          EXCEPT !.socket = [url |-> rt.channels, state |-> "connecting"],
                 !.made = @ + 1]
  ELSE rt

\* channelArray.forEach(channel => this.realtime.channels.add(channel))
RECURSIVE addChannels(_, _)
addChannels(channels, channelArray) ==
  IF Len(channelArray) = 0 THEN channels
  ELSE addChannels(IF channelArray[1] \in Elements(channels) THEN channels
                   ELSE Append(channels, channelArray[1]), Tail(channelArray))

\* Some subscription lists the channel.
found(subscriptions, channel) ==
  \E i \in 1..Len(subscriptions) : channel \in Elements(subscriptions[i].channels)

\* A cleanUp that deletes every channel of the list.
RECURSIVE cleanUpListed(_, _, _)
cleanUpListed(channels, subscriptions, channelArray) ==
  IF Len(channels) = 0 THEN <<>>
  ELSE (IF channels[1] \in Elements(channelArray) THEN <<>> ELSE <<channels[1]>>)
         \o cleanUpListed(Tail(channels), subscriptions, channelArray)

\* cleanUp(channels): what is left of the channel set.
RECURSIVE cleanUp(_, _, _)
cleanUp(channels, subscriptions, channelArray) ==
  IF Len(channels) = 0 THEN <<>>
  ELSE (IF channels[1] \in Elements(channelArray) /\ ~found(subscriptions, channels[1])
        THEN <<>> ELSE <<channels[1]>>)
         \o cleanUp(Tail(channels), subscriptions, channelArray)

\* this.realtime.subscriptions.delete(counter)
RECURSIVE deleteKey(_, _)
deleteKey(subscriptions, counter) ==
  IF Len(subscriptions) = 0 THEN <<>>
  ELSE (IF subscriptions[1].key = counter THEN <<>> ELSE <<subscriptions[1]>>)
         \o deleteKey(Tail(subscriptions), counter)

\* subscribe(channels, callback)
Subscribe(channelArray) ==
  /\ realtime.subscriptionsCounter < MaxSubscriptions
  /\ realtime' = connect([realtime EXCEPT
         !.channels = addChannels(@, channelArray),
         !.subscriptions = Append(@, [key |-> realtime.subscriptionsCounter,
                                      channels |-> channelArray]),
         !.subscriptionsCounter = @ + 1,
         !.op = "subscribe", !.key = realtime.subscriptionsCounter])
  /\ closures' = Append(closures, channelArray)
  /\ UNCHANGED <<builderVars, uploadVars>>

\* The function subscribe returned for the subscription with key counter.
Unsubscribe(counter) ==
  /\ counter + 1 \in DOMAIN closures
  /\ realtime' = connect([realtime EXCEPT
         !.subscriptions = deleteKey(@, counter),
         !.channels = cleanUp(@, deleteKey(realtime.subscriptions, counter),
                              closures[counter + 1]),
         !.op = "unsubscribe", !.key = counter])
  /\ UNCHANGED <<builderVars, closures, uploadVars>>

\* The timer of connect() fires.
ConnectTimer ==
  /\ realtime.timeout
  /\ realtime' = createSocket([realtime EXCEPT !.timeout = FALSE, !.op = "timer"])
  /\ UNCHANGED <<builderVars, closures, uploadVars>>

\* A reconnect timer set by the 'disconnect' handler fires.
BackoffTimer ==
  /\ Len(realtime.backoff) > 0
  /\ realtime' = createSocket([realtime EXCEPT !.backoff = Tail(@),
                                               !.reconnectAttempts = @ + 1,
                                               !.op = "backoff"])
  /\ UNCHANGED <<builderVars, closures, uploadVars>>

\* The server accepts the connection: the 'connect' handler runs.
SocketConnect ==
  /\ realtime.socket.state = "connecting"
  /\ realtime' = [realtime EXCEPT !.socket.state = "open", !.reconnectAttempts = 0,
                                  !.op = "connect"]
  /\ UNCHANGED <<builderVars, closures, uploadVars>>

\* A message arrives: onMessage keeps it as lastMessage.
Message(type) ==
  /\ realtime.socket.state = "open"
  /\ realtime.lastMessage # type
  /\ realtime' = [realtime EXCEPT !.lastMessage = type, !.op = "message"]
  /\ UNCHANGED <<builderVars, closures, uploadVars>>

\* The connection is lost without the client closing it.
ServerDisconnect ==
  /\ realtime.socket.state = "open"
  /\ realtime.dropped < MaxDisconnects
  /\ realtime' = onDisconnect([realtime EXCEPT !.socket.state = "closed",
                                               !.dropped = @ + 1, !.op = "disconnect"])
  /\ UNCHANGED <<builderVars, closures, uploadVars>>

(***************************************************************************)
(* Client.chunkedUpload.                                                   *)
(***************************************************************************)
CHUNK_SIZE == 1024 * 1024 * 5

MaxChunks == 3

\* No upload yet. calls are the requests handed to Client.call, with the
\* content-range and x-nuvix-id headers; served are the $id of the answers' bodies.
NoUpload ==
  [pc |-> "idle", size |-> 0, start |-> 0, id |-> "", calls |-> <<>>,
   served |-> <<>>, response |-> [t |-> "null", id |-> ""]]

\* What Client.call resolves to or throws for an answer whose body holds $id id.
uploadResponse(safe, status, id) ==
  IF 400 <= status
  THEN (IF safe THEN [t |-> "envelope", id |-> ""] ELSE [t |-> "throw", id |-> ""])
  ELSE (IF safe THEN [t |-> "envelope", id |-> id] ELSE [t |-> "object", id |-> id])

\* response.$id
IdOf(response) == IF response.t = "object" THEN response.id ELSE ""

\* if (response && response.$id) headers['x-nuvix-id'] = response.$id
nextId(id, response) == IF IdOf(response) # "" THEN IdOf(response) ELSE id

\* let end = start + CHUNK_SIZE; if (end >= file.size) end = file.size
chunkEnd(start, size) ==
  IF start + CHUNK_SIZE >= size THEN size ELSE start + CHUNK_SIZE

\* chunkedUpload(method, url, headers, {file}) up to its first call.
ChunkedUpload(size) ==
  /\ upload.pc = "idle"
  /\ upload' = [NoUpload EXCEPT !.size = size,
                                !.pc = IF size <= CHUNK_SIZE THEN "whole" ELSE "loop"]
  /\ UNCHANGED <<builderVars, realtimeVars>>

\* The one call of a file of at most CHUNK_SIZE bytes returns or throws.
UploadWhole(status, id) ==
  /\ upload.pc = "whole"
  /\ upload' = [upload EXCEPT
         !.calls = Append(@, [range |-> <<>>, id |-> upload.id]),
         !.served = Append(@, IF 400 <= status THEN "" ELSE id),
         !.response = uploadResponse(safeResponse, status, id),
         !.pc = IF uploadResponse(safeResponse, status, id).t = "throw"
                THEN "failed" ELSE "done"]
  /\ UNCHANGED <<builderVars, realtimeVars>>

\* One pass of the loop: the call of the chunk at start returns or throws.
UploadChunk(status, id) ==
  /\ upload.pc = "loop"
  /\ upload.start < upload.size
  /\ upload' = [upload EXCEPT
         !.calls = Append(@, [range |-> <<upload.start,
                                          chunkEnd(upload.start, upload.size) - 1,
                                          upload.size>>,
                              id |-> upload.id]),
         !.served = Append(@, IF 400 <= status THEN "" ELSE id),
         !.response = uploadResponse(safeResponse, status, id),
         !.id = IF uploadResponse(safeResponse, status, id).t = "throw" THEN @
                ELSE nextId(@, uploadResponse(safeResponse, status, id)),
         !.start = IF uploadResponse(safeResponse, status, id).t = "throw" THEN @
                   ELSE chunkEnd(upload.start, upload.size),
         !.pc = IF uploadResponse(safeResponse, status, id).t = "throw" THEN "failed"
                ELSE IF chunkEnd(upload.start, upload.size) < upload.size THEN "loop"
                ELSE "done"]
  /\ UNCHANGED <<builderVars, realtimeVars>>

\* client.database.from("users") on a new Client, and a new NuvqlFilter.
Start ==
  /\ heap = <<From("users")>>
  /\ last = Last("new", 1, 1, "", <<>>, OtherCall("from"), NoOutcome, 0)
  /\ requests = <<>>
  /\ reply = NoOutcome
  /\ safeResponse = FALSE
  /\ nf = <<>>
  /\ fmtOut = NoFormat
  /\ descriptors = <<>>
  /\ lastColumn = NoColumnCall
  /\ inPlace = inPlace_from
  /\ lastInPlace = InPlaceCall("new", 1, <<>>)
  /\ collections = <<<<>>>>
  /\ lastCollection = [op |-> "new", recv |-> 1, ret |-> 1, out |-> <<>>]
  /\ realtime = NewRealtime
  /\ closures = <<>>
  /\ upload = NoUpload

Init == Start /\ fmtIn = Null

\* The heap after a call: the builders that existed before, and the builder the
\* call returned when it is a new one (the temporaries of callbacks are garbage).
Commit(b, c, r) ==
  LET old == SubSeq(r.h, 1, Len(heap))
      isNew == r.ret > Len(heap)
  IN /\ heap' = (IF isNew /\ r.err = "" THEN Append(old, r.h[r.ret]) ELSE old)
     /\ last' = Last(c.m, b, (IF isNew /\ r.err = "" THEN Len(heap) + 1
                                 ELSE IF isNew THEN b ELSE r.ret),
                     r.err, r.cb, c, NoOutcome, 0)
     /\ UNCHANGED <<requests, reply, safeResponse, nf, fmtIn, fmtOut, columnVars, inPlaceVars, collectionVars, realtimeVars, uploadVars>>

Select(b, cols) ==
  /\ Len(heap) < MaxBuilders
  /\ Commit(b, SelectCall(cols), select(heap, b, cols))

Predicate(b, c) ==
  /\ Len(heap) < MaxBuilders
  /\ Commit(b, c, predicate(heap, b, c.m, c.column, c.value))

And(b, script) ==
  /\ Len(heap) < MaxBuilders
  /\ Commit(b, LogicalCall("and", script), logical(heap, b, "and", script))

Or(b, script) ==
  /\ Len(heap) < MaxBuilders
  /\ Commit(b, LogicalCall("or", script), logical(heap, b, "or", script))

Not(b, script) ==
  /\ Len(heap) < MaxBuilders
  /\ Commit(b, LogicalCall("not", script), logical(heap, b, "not", script))

Join(b, opts, script) ==
  /\ Len(heap) < MaxBuilders
  /\ Commit(b, JoinCall(opts, script), join(heap, b, opts, script))

\* b.orderBy(...), b.limit(...), ...: a name the class does not define.
Undefined_Method(b, m) ==
  /\ m \notin TableQueryBuilderMethods
  /\ last.op # m \/ last.recv # b
  /\ Commit(b, OtherCall(m), Result(heap, b, "TypeError", <<>>))

\* b.range(start, end): the class defines no range, whatever the bounds are.
Range(b, start, end) ==
  /\ "range" \notin TableQueryBuilderMethods
  /\ Commit(b, [OtherCall("range") EXCEPT !.value = Arr(<<Num(start), Num(end)>>)],
            Result(heap, b, "TypeError", <<>>))

(***************************************************************************)
(* Terminal calls: execute, single, maybeSingle, and await on the builder. *)
(***************************************************************************)
\* client.setSafeResponse(value)
SetSafeResponse(value) ==
  /\ safeResponse # value
  /\ safeResponse' = value
  /\ UNCHANGED <<heap, last, requests, reply, nf, fmtIn, fmtOut, columnVars, inPlaceVars, collectionVars, realtimeVars, uploadVars>>

\* What the transport answers: a status and, below 400, a list of n rows.
Transport(status, n) ==
  call(safeResponse, status, [i \in 1..n |-> i], "general_server_error")

\* One request goes to Client.call and op resolves to out.
Terminal(op, b, answer, out) ==
  /\ Len(requests) < MaxCalls
  /\ requests' = Append(requests, Request(heap[b]))
  /\ reply' = answer
  /\ last' = Last(op, b, b, "", <<>>, OtherCall(op), out,
                  Len(requests') - Len(requests))
  /\ UNCHANGED <<heap, safeResponse, nf, fmtIn, fmtOut, columnVars, inPlaceVars, collectionVars, realtimeVars, uploadVars>>

Execute(b, status, n) ==
  Terminal("execute", b, Transport(status, n), execute(Transport(status, n)))

Single(b, status, n) ==
  Terminal("single", b, Transport(status, n), single(Transport(status, n)))

MaybeSingle(b, status, n) ==
  Terminal("maybeSingle", b, Transport(status, n), maybeSingle(Transport(status, n)))

\* await builder: the class defines no then(), so the await resolves to the
\* builder itself and nothing is sent.
Await(b) ==
  /\ "then" \notin TableQueryBuilderMethods
  /\ last.op # "await" \/ last.recv # b
  /\ UNCHANGED <<heap, requests, reply, safeResponse, nf, fmtIn, fmtOut, columnVars, inPlaceVars, collectionVars, realtimeVars, uploadVars>>
  /\ last' = Last("await", b, b, "", <<>>, OtherCall("await"), TheBuilder(b),
                  Len(requests') - Len(requests))

(***************************************************************************)
(* The free helpers and(), or(), not(), column(name).eq(value), and        *)
(* NuvqlFilter.                                                            *)
(***************************************************************************)
column_eq(name, value) == FilterCondition(name, "eq", value, isColumnReference(value))

and(conditions) == LogicalCondition("and", conditions)

or(conditions) == LogicalCondition("or", conditions)

not(conditions) == LogicalCondition("not", conditions)

\* NuvqlFilter.add: this.conditions.push(condition)
NuvqlFilter_add(conditions, condition) == Append(conditions, condition)

\* NuvqlFilter.clear
NuvqlFilter_clear(conditions) == <<>>

Add(condition) ==
  /\ Len(nf) < MaxFilterConds
  /\ nf' = NuvqlFilter_add(nf, condition)
  /\ UNCHANGED <<heap, last, requests, reply, safeResponse, fmtIn, fmtOut, columnVars, inPlaceVars, collectionVars, realtimeVars, uploadVars>>

Clear ==
  /\ nf # <<>>
  /\ nf' = NuvqlFilter_clear(nf)
  /\ UNCHANGED <<heap, last, requests, reply, safeResponse, fmtIn, fmtOut, columnVars, inPlaceVars, collectionVars, realtimeVars, uploadVars>>

(***************************************************************************)
(* The Value Formatter applied to fmtIn: as the operand of eq, neq, ...    *)
(* (the flag is isColumnReference(value)) and as an item of an in/between  *)
(* list (no flag).                                                         *)
(***************************************************************************)
FormatOperand ==
  /\ ~fmtOut.done
  /\ fmtOut' = [done |-> TRUE, flag |-> isColumnReference(fmtIn),
                text |-> formatValue(fmtIn, isColumnReference(fmtIn))]
  /\ UNCHANGED <<heap, last, requests, reply, safeResponse, nf, fmtIn, columnVars, inPlaceVars, collectionVars, realtimeVars, uploadVars>>

FormatListItem ==
  /\ ~fmtOut.done
  /\ fmtOut' = [done |-> TRUE, flag |-> FALSE, text |-> formatValue(fmtIn, FALSE)]
  /\ UNCHANGED <<heap, last, requests, reply, safeResponse, nf, fmtIn, columnVars, inPlaceVars, collectionVars, realtimeVars, uploadVars>>

(***************************************************************************)
(* Inputs of the calls.                                                    *)
(***************************************************************************)
EqStatus == PredicateCall("eq", "status", Str(<<"active">>))
EqA == PredicateCall("eq", "a", Num(1))
EqB == PredicateCall("eq", "b", Num(2))

Predicates == {EqStatus, EqA, EqB}

SelectIdName == <<StringArg(<<"id">>), StringArg(<<"name">>)>>

Selections == {<<>>, SelectIdName, <<ObjectArg("n", <<"name">>)>>}

\* Callbacks of and/or/not: f => f, f => f.eq(..), f => f.eq(..).eq(..),
\* f => f.or(g => g.eq(..)), f => f.and(g => g).
FilterScripts ==
  {<<>>, <<EqA>>, <<EqA, EqB>>, <<LogicalCall("or", <<EqStatus>>)>>,
   <<LogicalCall("and", <<>>)>>}

JoinOptionSets ==
  {JoinOptions("posts", "", "absent", "absent", "absent"),
   JoinOptions("posts", "p", "absent", "one", "left"),
   JoinOptions("posts", "", "absent", "undefined", "absent"),
   JoinOptions("posts", "", "absent", "many", "absent"),
   JoinOptions("posts", "", "true", "absent", "absent"),
   JoinOptions("posts", "p", "true", "one", "left")}

\* Callbacks of join: b => b, b => b.select('title'), b => b.eq(..),
\* b => b.select('title').eq(..), b => b.join({table: 'tags'}, t => t).
JoinScripts ==
  {<<>>, <<SelectCall(<<StringArg(<<"title">>)>>)>>, <<EqA>>,
   <<SelectCall(<<StringArg(<<"title">>)>>), EqStatus>>,
   <<JoinCall(JoinOptions("tags", "", "absent", "absent", "absent"), <<>>)>>}

UndefinedMethods == {"orderBy", "limit"}

Builders == 1..Len(heap)

Statuses == {200, 404}

RowCounts == 0..MaxRows

\* A status below 400 with a list of n rows, or an error status.
Answers == {<<200, n>> : n \in RowCounts} \cup {<<404, 0>>}

\* Arguments of the free helpers and the conditions handed to NuvqlFilter.add.
HelperArgs ==
  {<<>>, <<column_eq("a", Num(1))>>, <<column_eq("a", Num(1)), column_eq("b", Num(2))>>,
   <<or(<<>>)>>}

Conditions ==
  {column_eq("a", Num(1)), column_eq("b", Num(2))}
    \cup {and(a) : a \in HelperArgs} \cup {or(a) : a \in HelperArgs}
    \cup {not(a) : a \in HelperArgs}

\* Values given to the Value Formatter.
Chars == {"a", "'", "\\", "\""}

Strings == UNION {[1..n -> Chars] : n \in 0..MaxStrLen}

Scalars ==
  {Null, Undefined, Bool(TRUE), Bool(FALSE), Num(0), Num(7), Num(42), Num(-5),
   Num(120), Num(1), Num(10), DateV(2024, 1, 5), DateV(987, 12, 31)}
    \cup {Str(s) : s \in Strings}

Items == {Null, Num(1), Bool(TRUE), Str(<<"a">>), Str(<<"'">>), Str(<<"\"">>),
          Str(<<"\\">>), DateV(2024, 1, 5)}

Arrays == {Arr(<<>>)} \cup {Arr(<<x>>) : x \in Items}
            \cup {Arr(<<x, Num(2)>>) : x \in Items}
            \cup {Arr(<<Arr(<<x>>)>>) : x \in {Num(1), Str(<<"'">>)}}

FormatInputs == Scalars \cup Arrays

(***************************************************************************)
(* Specifications.                                                         *)
(***************************************************************************)
\* Chain calls that make builders: select, the predicates, join.
Next ==
  \/ \E b \in Builders, cols \in Selections : Select(b, cols)
  \/ \E b \in Builders, c \in Predicates : Predicate(b, c)
  \/ \E b \in Builders, opts \in JoinOptionSets, script \in JoinScripts :
       Join(b, opts, script)

Spec == Init /\ [][Next]_vars

\* Chain calls with callbacks of and/or/not, and calls of names the class lacks.
NextChain ==
  \/ \E b \in Builders, cols \in Selections : Select(b, cols)
  \/ \E b \in Builders, c \in Predicates : Predicate(b, c)
  \/ \E b \in Builders, script \in FilterScripts : And(b, script)
  \/ \E b \in Builders, script \in FilterScripts : Or(b, script)
  \/ \E b \in Builders, script \in FilterScripts : Not(b, script)
  \/ \E b \in Builders, m \in UndefinedMethods : Undefined_Method(b, m)
  \/ \E b \in Builders, r \in {<<0, 9>>, <<2, 2>>, <<5, 2>>, <<-1, 3>>} : Range(b, r[1], r[2])

SpecChain == Init /\ [][NextChain]_vars

\* Chain calls followed by terminal calls against a transport.
NextExec ==
  \/ \E value \in BOOLEAN : SetSafeResponse(value)
  \/ \E b \in Builders : Select(b, SelectIdName)
  \/ \E b \in Builders : Predicate(b, EqStatus)
  \/ \E b \in Builders, a \in Answers : Execute(b, a[1], a[2])
  \/ \E b \in Builders, a \in Answers : Single(b, a[1], a[2])
  \/ \E b \in Builders, a \in Answers : MaybeSingle(b, a[1], a[2])
  \/ \E b \in Builders : Await(b)

SpecExec == Init /\ [][NextExec]_vars

\* single() and maybeSingle() on builders with and without a condition.
NextSingle ==
  \/ \E value \in BOOLEAN : SetSafeResponse(value)
  \/ \E b \in Builders : Predicate(b, EqStatus)
  \/ \E b \in Builders, a \in Answers : Single(b, a[1], a[2])
  \/ \E b \in Builders, a \in Answers : MaybeSingle(b, a[1], a[2])

SpecSingle == Init /\ [][NextSingle]_vars

\* Conditions built with the free helpers and with the builder's and/or/not.
NextFilter ==
  \/ \E condition \in Conditions : Add(condition)
  \/ Clear
  \/ \E b \in Builders, c \in Predicates : Predicate(b, c)
  \/ \E b \in Builders, script \in FilterScripts : And(b, script)
  \/ \E b \in Builders, script \in FilterScripts : Or(b, script)
  \/ \E b \in Builders, script \in FilterScripts : Not(b, script)

SpecFilter == Init /\ [][NextFilter]_vars

\* The Value Formatter on each input value.
InitFormat == Start /\ fmtIn \in FormatInputs

NextFormat == FormatOperand \/ FormatListItem

SpecFormat == InitFormat /\ [][NextFormat]_vars

TypeOK ==
  /\ Len(heap) \in 1..MaxBuilders
  /\ last.recv \in Builders /\ last.ret \in Builders
  /\ Len(requests) <= MaxCalls
  /\ Len(nf) <= MaxFilterConds

(***************************************************************************)
(* Properties of the chain calls (specification Spec).                     *)
(***************************************************************************)
PredicateOperators == ReferenceOperators \cup PlainOperators

ChainOperators == {"select", "join"} \cup PredicateOperators

\* The condition a predicate call is meant to add.
ConditionOf(c) ==
  FilterCondition(c.column, c.m, c.value,
                  c.m \in ReferenceOperators /\ isColumnReference(c.value))

\* A callback that only chains predicate calls, at least one.
OnlyPredicates(script) ==
  /\ Len(script) >= 1
  /\ \A i \in 1..Len(script) : script[i].m \in PredicateOperators

Contains(text, part) ==
  \E i \in 1..(Len(text) - Len(part) + 1) : SubSeq(text, i, i + Len(part) - 1) = part

IsPrefix(part, text) ==
  Len(part) <= Len(text) /\ SubSeq(text, 1, Len(part)) = part

\* C1: and/or/not with a callback that adds n >= 1 conditions appends exactly one
\* LogicalCondition with that operator and those n conditions, in order, to the end
\* of the parent's condition list; and(f => f.eq('a',1).eq('b',2)) on a builder with
\* no other conditions makes toString() contain and(a.eq(1),b.eq(2)).
C1_LogicalAppendsOneCondition ==
  (last.op \in LogicalOperators /\ OnlyPredicates(last.arg.script)) =>
    /\ last.err = ""
    /\ getConditions(heap[last.ret])
         = Append(getConditions(heap[last.recv]),
                  LogicalCondition(last.op, [i \in 1..Len(last.arg.script) |->
                                               ConditionOf(last.arg.script[i])]))
    /\ (last.op = "and" /\ last.arg.script = <<EqA, EqB>>
          /\ getConditions(heap[last.recv]) = <<>>)
         => Contains(toString(heap[last.ret]),
                     <<"and(", "a", ".eq(", "1", ")", ",", "b", ".eq(", "2", ")", ")">>)

\* C2: every select, join and predicate call returns a new builder holding the
\* receiver's state plus the change, and leaves every existing builder (so the
\* receiver and every chain branched from it) with the same toString(),
\* getConditions() and getJoinedTables() as before the call.
C2_ReceiverUnchanged ==
  [][(last'.op \in ChainOperators /\ last'.err = "") =>
       /\ Len(heap') = Len(heap) + 1
       /\ last'.ret = Len(heap')
       /\ \A i \in 1..Len(heap) :
            /\ toString(heap'[i]) = toString(heap[i])
            /\ getConditions(heap'[i]) = getConditions(heap[i])
            /\ getJoinedTables(heap'[i]) = getJoinedTables(heap[i])
            /\ heap'[i] = heap[i]
       /\ CASE last'.op = "select" ->
                 heap'[last'.ret]
                   = [heap[last'.recv] EXCEPT !.selectedColumns =
                        [i \in 1..Len(last'.arg.cols) |-> SelectionOf(last'.arg.cols[i])]]
            [] last'.op = "join" ->
                 /\ Len(heap'[last'.ret].joins) = Len(heap[last'.recv].joins) + 1
                 /\ [heap'[last'.ret] EXCEPT !.joins = <<>>, !.joinedTables = NoJoinedTables]
                      = [heap[last'.recv] EXCEPT !.joins = <<>>,
                                                 !.joinedTables = NoJoinedTables]
            [] OTHER ->
                 heap'[last'.ret]
                   = [heap[last'.recv] EXCEPT !.conditions =
                        Append(@, ConditionOf(last'.arg))]]_vars

\* C2 witness: two chains branched from the base builder, each with its own condition,
\* and the base builder still without any.
C2_Witness ==
  /\ Len(heap) = 3
  /\ heap[1] = From("users")
  /\ getConditions(heap[2]) = <<ConditionOf(EqA)>>
  /\ getConditions(heap[3]) = <<ConditionOf(EqB)>>

\* C3: a top-level builder serializes to select=<cols>&filter=<predicate> followed by
\* the limit, order, offset and group parts; select('id','name').eq('status','active')
\* .orderBy({created_at:'desc'}) compiles to the text ending in &order=created_at.desc.
C3_TopLevelSerialization ==
  /\ \A b \in Builders :
       ~heap[b].isJoinBuilder =>
         IsPrefix(<<"select=">> \o JoinTexts(FilterNonEmpty(<<selectText(heap[b]),
                                                              joinsText(heap[b])>>), ","),
                  toString(heap[b]))
  /\ (last.op = "orderBy"
        /\ toString(heap[last.recv])
             = <<"select=", "id", ",", "name", "&filter=", "status", ".eq(", "'",
                 "active", "'", ")">>)
       => /\ last.err = ""
          /\ toString(heap[last.ret])
               = toString(heap[last.recv]) \o <<"&order=", "created_at", ".desc">>

\* The builder the callback of the last call returned, found by running the callback
\* again on the builder the call handed to it.
CallbackResult ==
  RunScript(<<last.cb[1]>>, 1, last.arg.script).h[
    RunScript(<<last.cb[1]>>, 1, last.arg.script).ret]

\* The embed fragment of a join with the given options, up to its opening brace.
FragmentHead(opts) ==
  (IF opts.flatten = "true" THEN <<"...">> ELSE <<>>)
    \o (IF opts.as # "" THEN <<opts.as, ":">> ELSE <<>>)
    \o <<opts.table>>
    \o (IF opts.flatten = "true" THEN <<>>
        ELSE <<".", (IF opts.kind \in {"one", "many"} THEN opts.kind ELSE "many")>>)
    \o <<"{">>

\* C4: a join builder serializes to [...]<alias:>table[.kind]{<predicate>,$.join(type)}
\* (<inner-select>): '...' exactly for a flatten join, '<as>:' exactly when an alias
\* was given, '.one' or '.many' on every shaped join with '.many' when no kind was
\* given, and the braces hold the join's conditions followed by $.join(<type>).
C4_JoinFragment ==
  (last.op = "join" /\ last.err = "") =>
    IsPrefix(FragmentHead(last.arg.opts)
               \o JoinTexts(FilterNonEmpty(
                     <<filterText(CallbackResult),
                       <<"$.join(",
                         (IF last.arg.opts.type = "absent" THEN "inner"
                          ELSE last.arg.opts.type), ")">>>>), ",")
               \o <<"}">>,
             heap[last.ret].joins[Len(heap[last.ret].joins)].query)

\* C10: join(options, callback) calls the callback once with a fresh builder for
\* options.table that has no selections, conditions or joins and carries the parent's
\* joined tables; the builder it returns has the parent's joins plus one entry
\* {name: options.as or options.table, query: toString() of what the callback
\* returned}, the joined tables extended with that name mapped to the options, and the
\* parent's selections and conditions.
C10_JoinAppendsEntry ==
  (last.op = "join" /\ last.err = "") =>
    LET this == heap[last.recv]
        new == heap[last.ret]
        opts == last.arg.opts
        joinName == IF opts.as # "" THEN opts.as ELSE opts.table
    IN /\ Len(last.cb) = 1
       /\ last.cb[1] = TableQueryBuilder(opts.table, this.schema, TRUE, opts,
                                         this.tableName, <<>>, <<>>, <<>>,
                                         this.joinedTables)
       /\ new.joins = Append(this.joins,
                             [name |-> joinName, query |-> toString(CallbackResult)])
       /\ DOMAIN new.joinedTables = (DOMAIN this.joinedTables) \cup {joinName}
       /\ new.joinedTables[joinName] = opts
       /\ \A k \in (DOMAIN this.joinedTables) \ {joinName} :
            new.joinedTables[k] = this.joinedTables[k]
       /\ new.selectedColumns = this.selectedColumns
       /\ new.conditions = this.conditions
       /\ new.tableName = this.tableName /\ new.isJoinBuilder = this.isJoinBuilder

\* C10 witness: an aliased join whose callback selects and filters, made on a builder
\* that already holds a condition.
C10_Witness ==
  /\ last.op = "join" /\ last.err = ""
  /\ last.arg.opts.as = "p"
  /\ Len(last.arg.script) = 2
  /\ Len(heap[last.recv].conditions) = 1
  /\ Len(heap[last.ret].joins) = 1
  /\ heap[last.ret].joins[1].name = "p"

(***************************************************************************)
(* Properties of the terminal calls (specifications SpecSingle, SpecExec). *)
(***************************************************************************)
\* C5: given a result list of n rows from the transport, single() raises NO_RESULTS
\* when n = 0, returns the one row unwrapped when n = 1 and raises MULTIPLE_RESULTS
\* when n > 1; maybeSingle() returns null when n = 0 and the first row when n >= 1,
\* and never raises.
C5_SingleResultShape ==
  (reply.t = "list") =>
    /\ last.op = "single" =>
         /\ Len(reply.rows) = 0 => (last.out.t = "throw" /\ last.out.err = "NO_RESULTS")
         /\ Len(reply.rows) = 1 => last.out = Row(reply.rows[1])
         /\ Len(reply.rows) > 1 =>
              (last.out.t = "throw" /\ last.out.err = "MULTIPLE_RESULTS")
    /\ last.op = "maybeSingle" =>
         /\ Len(reply.rows) = 0 => last.out = JsNull
         /\ Len(reply.rows) >= 1 => last.out = Row(reply.rows[1])
         /\ last.out.t # "throw"

\* C5 witness: single() on a list of two rows has raised MULTIPLE_RESULTS.
C5_Witness ==
  /\ last.op = "single"
  /\ reply.t = "list" /\ Len(reply.rows) = 2
  /\ last.out = Thrown("MULTIPLE_RESULTS", 400)

\* C6: chain calls make no transport call; awaiting the builder makes exactly one and
\* resolves to what the transport answered; execute(), single() and maybeSingle() make
\* exactly one each.
C6_AwaitExecutesOnce ==
  /\ last.op \in ChainOperators => last.sent = 0
  /\ last.op \in {"execute", "single", "maybeSingle"} => last.sent = 1
  /\ last.op = "await" => (last.sent = 1 /\ last.out.t # "builder")

(***************************************************************************)
(* Properties of the conditions (specification SpecFilter).                *)
(***************************************************************************)
RECURSIVE NeverEmpty(_)
NeverEmpty(condition) ==
  condition.operator \in LogicalOperators =>
    /\ Len(condition.conditions) >= 1
    /\ \A i \in 1..Len(condition.conditions) : NeverEmpty(condition.conditions[i])

\* A callback that makes no predicate call at any depth.
RECURSIVE NoPredicates(_)
NoPredicates(script) ==
  \A i \in 1..Len(script) :
    /\ script[i].m \notin PredicateOperators
    /\ NoPredicates(script[i].script)

\* C9: every LogicalCondition in a builder's condition list, at any depth, has at
\* least one child; an and/or/not whose callback added no condition leaves the
\* parent's conditions unchanged and raises nothing; and the free and()/or()/not()
\* helpers with NuvqlFilter.add cannot put an empty logical wrapper into a filter.
C9_NoEmptyLogicalCondition ==
  /\ \A b \in Builders :
       \A i \in 1..Len(getConditions(heap[b])) : NeverEmpty(getConditions(heap[b])[i])
  /\ (last.op \in LogicalOperators /\ NoPredicates(last.arg.script)) =>
       (last.err = "" /\ getConditions(heap[last.ret]) = getConditions(heap[last.recv]))
  /\ \A i \in 1..Len(nf) : NeverEmpty(nf[i])

(***************************************************************************)
(* Properties of the Value Formatter (specification SpecFormat).           *)
(***************************************************************************)
Quoted(text) == <<"'">> \o text \o <<"'">>

\* The text with every single quote replaced by backslash-quote.
QuotesEscaped(text) ==
  Flatten([i \in 1..Len(text) |-> IF text[i] = "'" THEN <<"\\", "'">> ELSE <<text[i]>>])

DigitValue(ch) == CHOOSE d \in 0..9 : Digit(d) = ch

RECURSIVE DigitsValue(_)
DigitsValue(text) ==
  IF Len(text) = 0 THEN 0
  ELSE 10 * DigitsValue(SubSeq(text, 1, Len(text) - 1)) + DigitValue(text[Len(text)])

IsDigits(text) ==
  /\ Len(text) >= 1
  /\ \A i \in 1..Len(text) : \E d \in 0..9 : Digit(d) = text[i]
  /\ Len(text) = 1 \/ text[1] # "0"

\* text is the decimal text of the integer n.
IsDecimalOf(text, n) ==
  IF n < 0
  THEN Len(text) >= 2 /\ text[1] = "-" /\ IsDigits(Tail(text))
         /\ DigitsValue(Tail(text)) = 0 - n
  ELSE IsDigits(text) /\ DigitsValue(text) = n

\* C7: for a value that is not a column reference the Value Formatter gives: null for
\* null or undefined; the string in single quotes with every single quote replaced by
\* backslash-quote; true or false for a boolean; the unquoted decimal text of a
\* number; the ISO-8601 text of a date in single quotes; the JSON text of any other
\* array or object in single quotes with its single quotes escaped the same way.
C7_FormatValueMapping ==
  (fmtOut.done /\ ~fmtOut.flag) =>
    CASE fmtIn.t \in {"null", "undefined"} -> fmtOut.text = <<"null">>
      [] fmtIn.t = "string" -> fmtOut.text = Quoted(QuotesEscaped(fmtIn.s))
      [] fmtIn.t = "boolean" ->
           fmtOut.text = (IF fmtIn.b THEN <<"true">> ELSE <<"false">>)
      [] fmtIn.t = "number" -> IsDecimalOf(fmtOut.text, fmtIn.n)
      [] fmtIn.t = "date" -> fmtOut.text = Quoted(ToISOString(fmtIn.ymd))
      [] OTHER -> fmtOut.text = Quoted(QuotesEscaped(JsonStringify(fmtIn)))

\* C7 witness: the string a' has been formatted to 'a\''.
C7_Witness ==
  /\ fmtOut.done /\ ~fmtOut.flag
  /\ fmtIn = Str(<<"a", "'">>)
  /\ fmtOut.text = <<"'", "a", "\\", "'", "'">>

\* Reading a single-quote-delimited literal: backslash-quote stands for a quote, an
\* unescaped quote closes the literal and must be its last character.
RECURSIVE ScanLiteral(_, _)
ScanLiteral(rest, s) ==
  IF Len(rest) = 0 THEN [ok |-> FALSE, s |-> s]
  ELSE IF rest[1] = "\\" /\ Len(rest) >= 2 /\ rest[2] = "'"
  THEN ScanLiteral(SubSeq(rest, 3, Len(rest)), Append(s, "'"))
  ELSE IF rest[1] = "'" THEN [ok |-> Len(rest) = 1, s |-> s]
  ELSE ScanLiteral(Tail(rest), Append(s, rest[1]))

ParseLiteral(text) ==
  IF Len(text) = 0 \/ text[1] # "'" THEN [ok |-> FALSE, s |-> <<>>]
  ELSE ScanLiteral(Tail(text), <<>>)

\* C8: for every string s, with single quotes and backslashes too, the formatted text
\* is a well-formed single-quote-delimited literal whose only unescaped single quotes
\* are its delimiters, and un-escaping its content gives back exactly s.
C8_StringRoundTrip ==
  (fmtOut.done /\ ~fmtOut.flag /\ fmtIn.t = "string") =>
    ParseLiteral(fmtOut.text) = [ok |-> TRUE, s |-> fmtIn.s]

(***************************************************************************)
(* Properties of join fragments and selections (specification Spec).       *)
(***************************************************************************)
\* The fragment that opens with the brace at position i of text q carries a kind.
HasKindAt(q, i) == i >= 3 /\ q[i - 2] = "." /\ q[i - 1] \in {"one", "many"}

\* The fragment that carries a kind before the brace at i also opens with '...'.
HasFlattenAt(q, i) ==
  \/ i >= 5 /\ q[i - 4] = "..."
  \/ i >= 7 /\ q[i - 4] = ":" /\ q[i - 6] = "..."

\* C11: whatever join options are passed, flatten: true with a kind included, no
\* join fragment carries both the '...' prefix and a '.one'/'.many' suffix.
C11_FlattenExcludesKind ==
  \A b \in Builders :
    \A j \in 1..Len(heap[b].joins) :
      \A i \in 1..Len(heap[b].joins[j].query) :
        (heap[b].joins[j].query[i] = "{" /\ HasKindAt(heap[b].joins[j].query, i))
          => ~HasFlattenAt(heap[b].joins[j].query, i)

\* C11 witness: a join given flatten: true together with kind: 'one' was serialized
\* with the '...' prefix.
C11_Witness ==
  /\ last.op = "join" /\ last.err = ""
  /\ last.arg.opts.flatten = "true" /\ last.arg.opts.kind = "one"
  /\ IsPrefix(<<"...">>, heap[last.ret].joins[Len(heap[last.ret].joins)].query)

\* C12: select(...) replaces the selection: after select(A...) then select(B...) the
\* selection is exactly B in argument order; select() with no arguments resets it so
\* that '*' is serialized; conditions and joins are those of the receiver.
C12_SelectReplaces ==
  (last.op = "select" /\ last.err = "") =>
    /\ heap[last.ret].selectedColumns
         = [i \in 1..Len(last.arg.cols) |-> SelectionOf(last.arg.cols[i])]
    /\ Len(last.arg.cols) = 0 =>
         /\ selectText(heap[last.ret]) = <<"*">>
         /\ IsPrefix(<<"select=", "*">>, toString(heap[last.ret]))
    /\ heap[last.ret].conditions = heap[last.recv].conditions
    /\ heap[last.ret].joins = heap[last.recv].joins

\* C12 witness: select('id','name') then select({n: 'name'}) on its result, and
\* select('id','name') then select().
C12_Witness ==
  /\ last.op = "select" /\ last.err = ""
  /\ Len(heap[last.recv].selectedColumns) = 2
  /\ heap[last.ret].selectedColumns = <<<<"n", ":", "name">>>>

C12_WitnessReset ==
  /\ last.op = "select" /\ last.err = ""
  /\ Len(heap[last.recv].selectedColumns) = 2
  /\ last.arg.cols = <<>>

(***************************************************************************)
(* JSON-path selections.  A path is the text of a column, then '->' or     *)
(* '->>' and a key, repeated; '-' and '>' are single atoms so that the     *)
(* string operations of the code see the separators as they are written.   *)
(***************************************************************************)
MaxPathDepth == 2

Arrow == <<"-", ">">>
LongArrow == <<"-", ">", ">">>

\* String.prototype.includes
includes(s, part) ==
  \E i \in 1..(Len(s) - Len(part) + 1) : SubSeq(s, i, i + Len(part) - 1) = part

\* The position of the first occurrence of part in s (0 when there is none).
indexOf(s, part) ==
  IF includes(s, part)
  THEN CHOOSE i \in 1..(Len(s) - Len(part) + 1) :
         /\ SubSeq(s, i, i + Len(part) - 1) = part
         /\ \A j \in 1..(i - 1) : SubSeq(s, j, j + Len(part) - 1) # part
  ELSE 0

\* String.prototype.split with a non-empty separator.
RECURSIVE split(_, _)
split(s, sep) ==
  IF indexOf(s, sep) = 0 THEN <<s>>
  ELSE <<SubSeq(s, 1, indexOf(s, sep) - 1)>>
         \o split(SubSeq(s, indexOf(s, sep) + Len(sep), Len(s)), sep)

\* path.replace(/->>?/g, '_')
RECURSIVE jsonPathToFieldName(_)
jsonPathToFieldName(path) ==
  IF Len(path) = 0 THEN <<>>
  ELSE IF IsPrefix(LongArrow, path)
  THEN <<"_">> \o jsonPathToFieldName(SubSeq(path, 4, Len(path)))
  ELSE IF IsPrefix(Arrow, path)
  THEN <<"_">> \o jsonPathToFieldName(SubSeq(path, 3, Len(path)))
  ELSE <<path[1]>> \o jsonPathToFieldName(Tail(path))

\* The selection list as the aliasing toString writes it.
processedSelect(selectedColumns) ==
  [i \in 1..Len(selectedColumns) |->
     IF includes(selectedColumns[i], Arrow) /\ ~includes(selectedColumns[i], <<":">>)
     THEN jsonPathToFieldName(selectedColumns[i]) \o <<":">> \o selectedColumns[i]
     ELSE selectedColumns[i]]

\* The entry the in-place select pushes for one argument.
pushedSelection(arg) ==
  IF arg.k = "object" THEN <<arg.alias, ":">> \o arg.col
  ELSE IF includes(arg.col, Arrow) /\ ~includes(arg.col, <<":">>)
  THEN JoinTexts(split(arg.col, Arrow), "_") \o <<":">> \o arg.col
  ELSE arg.col

RECURSIVE JsonPathsOfDepth(_)
JsonPathsOfDepth(d) ==
  IF d = 0 THEN {<<"meta">>}
  ELSE {p \o op \o <<"name">> : p \in JsonPathsOfDepth(d - 1), op \in {Arrow, LongArrow}}

JsonPaths == UNION {JsonPathsOfDepth(d) : d \in 1..MaxPathDepth}

\* select('meta->>name'), select({n: 'meta->>name'}), select('n:meta->>name'),
\* select('id', 'name').
JsonSelections ==
  {<<StringArg(p)>> : p \in JsonPaths}
    \cup {<<ObjectArg("n", p)>> : p \in JsonPathsOfDepth(1)}
    \cup {<<StringArg(<<"n", ":">> \o p)>> : p \in JsonPathsOfDepth(1)}
    \cup {SelectIdName}

NextSelect == \E b \in Builders, cols \in JsonSelections : Select(b, cols)

SpecSelect == Init /\ [][NextSelect]_vars

\* The argument is a JSON path that carries no alias.
IsBareJsonPath(arg) ==
  arg.k = "string" /\ includes(arg.col, Arrow) /\ ":" \notin {arg.col[i] : i \in 1..Len(arg.col)}

\* The column and the keys of a path, joined by '_'.
AliasOfPath(path) ==
  JoinTexts([i \in 1..Len(SelectSeq(path, LAMBDA a : a \notin {"-", ">"})) |->
               <<SelectSeq(path, LAMBDA a : a \notin {"-", ">"})[i]>>], "_")

CompiledSelection(arg) ==
  IF IsBareJsonPath(arg) THEN AliasOfPath(arg.col) \o <<":">> \o arg.col
  ELSE SelectionOf(arg)

\* C13: a JSON-path selection without an alias compiles to <alias>:<path> whose
\* alias is the path with every '->' and '->>' replaced by one '_', at any depth,
\* and an aliased selection is emitted as given: in the cloning builder's query,
\* in the aliasing serializer and in the in-place select.
C13_JsonPathAliased ==
  (last.op = "select" /\ last.err = "" /\ Len(last.arg.cols) = 1) =>
    /\ toString(heap[last.ret]) = <<"select=">> \o CompiledSelection(last.arg.cols[1])
    /\ processedSelect(heap[last.ret].selectedColumns)
         = <<CompiledSelection(last.arg.cols[1])>>
    /\ pushedSelection(last.arg.cols[1]) = CompiledSelection(last.arg.cols[1])

MaxListLen == 2

\* in('id', [1]), nin('id', ['a', 1]), ...
ListPredicates ==
  {PredicateCall(operator, "id", Arr(values)) :
     operator \in {"in", "nin"},
     values \in UNION {[1..n -> {Num(1), Str(<<"a">>)}] : n \in 1..MaxListLen}}

NextList == \E b \in Builders, c \in ListPredicates : Predicate(b, c)

SpecList == Init /\ [][NextList]_vars

\* The name the wire grammar gives to a list operator.
WireListOperator(m) == IF m = "nin" THEN "notin" ELSE m

\* C15: a list predicate on column c with values v1..vn is serialized as
\* c.in(v1,v2,...), and c.notin(v1,v2,...) for the negated form: the operator name,
\* then the formatted values, comma-separated in input order, inside parentheses.
C15_ListInParentheses ==
  (last.op \in {"in", "nin"} /\ last.err = "") =>
    buildCondition(heap[last.ret].conditions[Len(heap[last.ret].conditions)])
      = <<last.arg.column, "." \o WireListOperator(last.op) \o "(">>
          \o JoinTexts([i \in 1..Len(last.arg.value.items) |->
                          formatValue(last.arg.value.items[i], FALSE)], ",")
          \o <<")">>

(***************************************************************************)
(* Column descriptors (specification SpecColumn).                          *)
(***************************************************************************)
\* column('id'), column('name'); as('n'), as('m'); cast('int') and cast('').
NextColumn ==
  \/ \E name \in {"id", "name"} : Column(name)
  \/ \E d \in 1..Len(descriptors), alias \in {"n", "m"} : As(d, alias)
  \/ \E d \in 1..Len(descriptors), castType \in {"int", ""} : Cast(d, castType)

SpecColumn == Init /\ [][NextColumn]_vars

\* A call of as or cast was made on a descriptor in this step.
ColumnCalled == lastColumn'.op \in {"as", "cast"} /\ <<descriptors, lastColumn>> # <<descriptors', lastColumn'>>

\* What every call on a descriptor keeps: the descriptors that existed are as they
\* were, a frozen receiver raises FROZEN_COLUMN_BUILDER and nothing is made, an
\* unfrozen receiver's as() makes a new unfrozen descriptor.
ColumnCallKeeps ==
  /\ SubSeq(descriptors', 1, Len(descriptors)) = descriptors
  /\ descriptors[lastColumn'.recv].frozen =>
       lastColumn'.err = "FROZEN_COLUMN_BUILDER" /\ descriptors' = descriptors
  /\ (~descriptors[lastColumn'.recv].frozen /\ lastColumn'.op = "as") =>
       /\ lastColumn'.err = "" /\ Len(descriptors') = Len(descriptors) + 1
       /\ ~descriptors'[lastColumn'.ret].frozen
  /\ lastColumn'.err = "" => descriptors'[lastColumn'.ret].frozen = (lastColumn'.op = "cast")

SurfacedOutcome(safe, status, n) ==
  IF 400 <= status
  THEN (IF safe THEN Envelope(<<>>, "general_server_error", status)
        ELSE Thrown("general_server_error", status))
  ELSE (IF safe THEN Envelope([i \in 1..n |-> i], "", 0) ELSE Rows([i \in 1..n |-> i]))

\* C17: a response with status >= 400 is surfaced as a NuvixException carrying the
\* status and type of the response; with safe-response mode off it propagates to the
\* caller, with it on the call returns {data: null, error: <that exception>}; a
\* successful call returns the raw data, or {data, error: null} in safe-response mode.
C17_ErrorSurfacing ==
  [][\A b \in Builders, a \in Answers :
       Execute(b, a[1], a[2]) => reply' = SurfacedOutcome(safeResponse, a[1], a[2])]_vars

(***************************************************************************)
(* The request of execute() (specification SpecExec).                      *)
(***************************************************************************)
\* C18: execute() hands the transport a GET request whose URL is
\* <endpoint>/schemas/<schema>/tables/<table>, from the client's endpoint and the
\* builder's schema and table name, with the builder's serialized query string as
\* the query component.
C18_RequestUrl ==
  (last.op \in {"execute", "single", "maybeSingle"} /\ last.sent = 1) =>
    /\ requests[Len(requests)].method = "GET"
    /\ requests[Len(requests)].url
         = <<endpoint, "/schemas/", heap[last.recv].schema, "/tables/",
             heap[last.recv].tableName>>
    /\ requests[Len(requests)].queryString = toString(heap[last.recv])

(***************************************************************************)
(* Reuse of a builder of the variant that changes itself                   *)
(* (specification SpecInPlace).                                            *)
(***************************************************************************)
\* Callbacks: f => f.eq(..), f => f.eq(..).eq(..), f => f.join({table: 'tags'}, j => j),
\* f => f.eq(..).join({table: 'tags'}, j => j).
InPlaceScripts ==
  {<<EqA>>, <<EqA, EqB>>,
   <<JoinCall(JoinOptions("tags", "", "absent", "absent", "absent"), <<>>)>>,
   <<EqA, JoinCall(JoinOptions("tags", "", "absent", "absent", "absent"), <<>>)>>}

NextInPlace ==
  \/ \E b \in 1..Len(inPlace.objects), c \in Predicates : InPlace(b, c)
  \/ \E b \in 1..Len(inPlace.objects), operator \in LogicalOperators,
        script \in InPlaceScripts : InPlace(b, LogicalCall(operator, script))
  \/ \E b \in 1..Len(inPlace.objects), as \in {"", "p"}, script \in {<<>>, <<EqA>>} :
       InPlace(b, JoinCall(JoinOptions("posts", as, "absent", "absent", "inner"), script))

SpecInPlace == Init /\ [][NextInPlace]_vars

\* The joinedTables object of builder id in store S.
JoinedTablesOf(S, id) == S.tables[S.objects[id].joinedTables]

\* A builder is a template: a call on it leaves its own lists as they were.
TemplateKept ==
  \A b \in 1..Len(inPlace.objects) :
    (lastInPlace' # lastInPlace /\ lastInPlace'.recv = b /\ lastInPlace'.op \in PredicateOperators)
      => inPlace'.objects[b].conditions = inPlace.objects[b].conditions

\* A call with a callback changes the receiver by the one entry it appends.
CallbackAppendsOneEntry ==
  \A b \in 1..Len(inPlace.objects) :
    (inPlace' # inPlace /\ lastInPlace'.recv = b) =>
      /\ lastInPlace'.op \in LogicalOperators =>
           /\ Len(inPlace'.objects[b].conditions) = Len(inPlace.objects[b].conditions) + 1
           /\ inPlace'.objects[b].joins = inPlace.objects[b].joins
           /\ JoinedTablesOf(inPlace', b) = JoinedTablesOf(inPlace, b)
      /\ lastInPlace'.op = "join" =>
           /\ Len(inPlace'.objects[b].joins) = Len(inPlace.objects[b].joins) + 1
           /\ inPlace'.objects[b].conditions = inPlace.objects[b].conditions
           /\ JoinedTablesOf(inPlace', b) \ JoinedTablesOf(inPlace, b) \subseteq {"posts", "p"}

\* C19: builders share no mutable state, also in the variant with public mutable
\* lists: a builder from which q1 and q2 are derived by adding conditions keeps
\* its own conditions, so each of them serializes the base's conditions plus its
\* own; and what a callback of and/or/not or join does to the builder it is
\* handed, a join included, changes the parent by the one appended entry only.
C19_NoSharedMutableState == [][TemplateKept /\ CallbackAppendsOneEntry]_vars

(***************************************************************************)
(* The result shape (specification SpecExec).                              *)
(***************************************************************************)
\* C20: a builder's result shape is set at most once: maybeSingle() on a builder on
\* which single() was invoked, or single() after maybeSingle(), raises a fatal
\* configuration error before any transport call is made.
C20_ShapeSetOnce ==
  [][(/\ \/ last.op = "single" /\ last'.op = "maybeSingle"
         \/ last.op = "maybeSingle" /\ last'.op = "single"
      /\ last'.recv = last.recv)
       => /\ requests' = requests
          /\ last'.sent = 0
          /\ last'.out.t = "throw"]_vars

(***************************************************************************)
(* Limit and range (specifications SpecExec and SpecChain).                *)
(***************************************************************************)
\* The query carries limit=1.
HasLimitOne(q) == \E i \in 1..(Len(q) - 1) : q[i] = "&limit=" /\ q[i + 1] = "1"

\* C21: single() and maybeSingle() force limit=1: when the caller has set no limit,
\* the query they send to the transport carries limit=1.
C21_SingleForcesLimit ==
  (last.op \in {"single", "maybeSingle"} /\ last.sent = 1) =>
    HasLimitOne(requests[Len(requests)].queryString)

\* The bounds given to the last range call.
RangeStart == last.arg.value.items[1].n
RangeEnd == last.arg.value.items[2].n

\* C22: range(start, end) sets limit = end - start + 1 and offset = start, so that the
\* query is the one of limit(end - start + 1).offset(start); when start > end or a
\* bound is negative it raises a configuration error and leaves the builder as it was.
C22_RangeSetsLimitAndOffset ==
  last.op = "range" =>
    IF 0 <= RangeStart /\ RangeStart <= RangeEnd
    THEN /\ last.err = ""
         /\ toString(heap[last.ret])
              = toString(heap[last.recv])
                  \o <<"&limit=">> \o NumberToString(RangeEnd - RangeStart + 1)
                  \o <<"&offset=">> \o NumberToString(RangeStart)
    ELSE /\ last.err # ""
         /\ last.ret = last.recv /\ heap[last.recv] = heap[last.ret]

(***************************************************************************)
(* Grouping of the collection queries (specification SpecCollection).      *)
(***************************************************************************)
\* The payload of a descriptor that is no query.
NoPayload == Query("", "", 0, <<>>, <<>>)

\* limit(1), limit(2); select('a'), select('*'); populate('author', b =>
\* b.select('name').equal('x', 1).populate('team', c => c.select('t').orderAsc('n')));
\* populateAll().
NextCollection ==
  \/ \E b \in 1..Len(collections), n \in {1, 2} :
       Chain(b, "limit",
             Descriptor("query", Query("limit", "", n, <<>>, <<>>), <<>>, "", <<>>))
  \/ \E b \in 1..Len(collections), attributes \in {<<"a">>, <<"*">>} :
       Chain(b, "select", Descriptor("select", NoPayload, attributes, "", <<>>))
  \/ \E b \in 1..Len(collections) :
       Chain(b, "populate",
             Descriptor("populate", NoPayload, <<>>, "author",
               <<Descriptor("select", NoPayload, <<"name">>, "", <<>>),
                 Descriptor("query", Query("equal", "x", 1, <<>>, <<>>), <<>>, "", <<>>),
                 Descriptor("populate", NoPayload, <<>>, "team",
                   <<Descriptor("select", NoPayload, <<"t">>, "", <<>>),
                     Descriptor("query", Query("orderAsc", "n", 0, <<>>, <<>>), <<>>, "",
                                <<>>)>>)>>))
  \/ \E b \in 1..Len(collections) :
       Chain(b, "populateAll", Descriptor("populateAll", NoPayload, <<>>, "", <<>>))
  \/ \E b \in 1..Len(collections) : Find(b)

SpecCollection == Init /\ [][NextCollection]_vars

\* The descriptors of one group, in the order of the calls.
GroupOf(ds, kinds) == SelectSeq(ds, LAMBDA d : d.kind \in kinds)

InGroupOrder(ds) ==
  GroupOf(ds, {"query"}) \o GroupOf(ds, {"select"})
    \o GroupOf(ds, {"populate", "populateAll"})

\* out holds one query string for each descriptor, group by group, and the nested
\* queries of each populate are grouped the same way.
RECURSIVE Grouped(_, _)
Grouped(ds, out) ==
  /\ Len(out) = Len(ds)
  /\ \A i \in 1..Len(out) :
       /\ out[i].form = "string"
       /\ InGroupOrder(ds)[i].kind = "query" =>
            out[i] = InGroupOrder(ds)[i].payload
       /\ InGroupOrder(ds)[i].kind = "select" =>
            /\ out[i].method = "select"
            /\ out[i].attrs = InGroupOrder(ds)[i].attributes
       /\ InGroupOrder(ds)[i].kind = "populateAll" =>
            out[i].method = "populate" /\ out[i].attribute = "*"
       /\ InGroupOrder(ds)[i].kind = "populate" =>
            /\ out[i].method = "populate"
            /\ out[i].attribute = InGroupOrder(ds)[i].attr
            /\ Grouped(InGroupOrder(ds)[i].nested,
                       [j \in 1..Len(out[i].nested) |->
                          [out[i].nested[j] EXCEPT !.form = "string"]])

\* C23: the builder emits one query string per descriptor, all filter/order/limit/
\* offset queries first, then all select queries, then all populate queries, each
\* group in the order of its calls whatever their interleaving; repeated limit or
\* select calls each add an entry; the nested queries of a populate are grouped the
\* same way.
C23_QueriesGrouped ==
  lastCollection.op = "find" =>
    Grouped(collections[lastCollection.recv], lastCollection.out)

\* C23 witness: select('a').limit(1).limit(2), or a populate with nested queries
\* followed by a limit, was serialized.
C23_Witness ==
  /\ lastCollection.op = "find"
  /\ Len(collections[lastCollection.recv]) = 3
  /\ collections[lastCollection.recv][1].kind = "populate"
  /\ collections[lastCollection.recv][2].kind = "select"
  /\ collections[lastCollection.recv][3].kind = "query"
  /\ lastCollection.out[1].method = "limit"
  /\ lastCollection.out[3].nested[1].method = "equal"

(***************************************************************************)
(* Function builders (specification SpecFn).                               *)
(***************************************************************************)
FnRaising == {"execute", "join", "single", "maybeSingle", "insert", "update", "delete"}

\* fn('stats').call({a: 1}), .call(), an await of the builder, and the seven calls
\* that raise, against a transport that answers rows or an error status.
NextFn ==
  \/ \E value \in BOOLEAN : SetSafeResponse(value)
  \/ \E args \in {"undefined", "{a:1}"}, a \in Answers :
       FnCall("call", args, Transport(a[1], a[2]))
  \/ \E a \in Answers : FnCall("then", "undefined", Transport(a[1], a[2]))
  \/ \E m \in FnRaising : FnRaise(m)

SpecFn == Init /\ [][NextFn]_vars

\* C24: on a function builder execute, join, single, maybeSingle, insert, update and
\* delete raise an error and invoke no transport; call(args) invokes the transport
\* once, as a POST to <endpoint>/schemas/<schema>/fn/<functionName> with args as the
\* body, inside withSafeResponse; awaiting the builder is call() with no arguments.
C24_FnBuilderCalls ==
  [][/\ last'.op \in FnRaising =>
          last'.err # "" /\ last'.out.t = "throw" /\ requests' = requests
     /\ (last'.op \in {"call", "then"} /\ <<last, requests>> # <<last', requests'>>) =>
          /\ Len(requests') = Len(requests) + 1
          /\ requests'[Len(requests')].method = "POST"
          /\ requests'[Len(requests')].url
               = <<endpoint, "/schemas/", "public", "/fn/", "stats">>
          /\ requests'[Len(requests')].body = last'.arg.column
          /\ last'.op = "then" => last'.arg.column = "undefined"
          /\ IF ~safeResponse THEN last'.out = reply'
             ELSE /\ last'.out.t = "envelope" /\ last'.out.err = ""
                  /\ last'.out.rows = <<reply'>>]_vars

\* C24 witness: call({a: 1}) in safe-response mode resolved to an envelope around
\* what the transport call returned.
C24_Witness ==
  /\ last.op = "call" /\ last.arg.column = "{a:1}" /\ safeResponse
  /\ last.out.t = "envelope" /\ last.out.rows = <<reply>>
  /\ requests[Len(requests)].body = "{a:1}"

(***************************************************************************)
(* The inner select of a join fragment (specification Spec).               *)
(***************************************************************************)
\* No comma of the text q opens or closes a parenthesis or follows another comma.
CommasSeparateItems(q) ==
  \A i \in 1..Len(q) :
    q[i] = "," => /\ i > 1 /\ q[i - 1] \notin {"(", ","}
                  /\ i < Len(q) /\ q[i + 1] \notin {")", ","}

\* C25: the parenthesised inner select of a join fragment is a comma-separated list
\* of non-empty items, the selected columns and then the nested join fragments,
\* with no leading, trailing or doubled comma; it is left out only when the join
\* builder selects all columns and has no nested joins.
C25_InnerSelectItems ==
  (last.op = "join" /\ last.err = "") =>
    /\ CommasSeparateItems(heap[last.ret].joins[Len(heap[last.ret].joins)].query)
    /\ heap[last.ret].joins[Len(heap[last.ret].joins)].query
           [Len(heap[last.ret].joins[Len(heap[last.ret].joins)].query)] # ")"
         <=> (Len(CallbackResult.selectedColumns) = 0 /\ Len(CallbackResult.joins) = 0)

(***************************************************************************)
(* single() and maybeSingle() in safe-response mode (specification SpecExec). *)
(***************************************************************************)
\* C27: with safeResponse enabled as with it disabled, single() returns exactly one
\* row or raises NO_RESULTS / MULTIPLE_RESULTS and maybeSingle() returns a row or
\* null; neither returns undefined or takes the {data, error} envelope for the rows.
C27_ShapeWhateverSafeResponse ==
  (last.op \in {"single", "maybeSingle"} /\ reply.t \in {"list", "envelope"}
     /\ reply.err = "") =>
    /\ last.out.t # "undefined"
    /\ last.op = "single" =>
         /\ Len(reply.rows) = 0 => last.out = Thrown("NO_RESULTS", 404)
         /\ Len(reply.rows) = 1 => last.out = Row(reply.rows[1])
         /\ Len(reply.rows) > 1 => last.out = Thrown("MULTIPLE_RESULTS", 400)
    /\ last.op = "maybeSingle" =>
         /\ Len(reply.rows) = 0 => last.out = JsNull
         /\ Len(reply.rows) >= 1 => last.out = Row(reply.rows[1])

(***************************************************************************)
(* The parameters of the request URL (specification SpecUrl).              *)
(***************************************************************************)
\* eq('name', v) for v = 'ab', 'a&b', 'a=b', 'a+b', '%41'.
UrlPredicates ==
  {PredicateCall("eq", "name", Str(v)) :
     v \in {<<"a", "b">>, <<"a", "&", "b">>, <<"a", "=", "b">>, <<"a", "+", "b">>,
            <<"%", "4", "1">>}}

NextUrl ==
  \/ \E b \in Builders : Select(b, SelectIdName)
  \/ \E b \in Builders, c \in UrlPredicates : Predicate(b, c)
  \/ \E b \in Builders : Execute(b, 200, 1)

SpecUrl == Init /\ [][NextUrl]_vars

\* The parameters a receiver decodes from the query component of the last request.
DecodedParameters == URLSearchParams(requests[Len(requests)].search)

\* C28: for every string filter value, with '&', '=', '+' or '%' in it or not, the
\* URL execute() hands to the transport has exactly the parameters select and filter
\* (filter only when there are conditions), and the decoded value of each is the
\* corresponding part of the text of toString().
C28_UrlParameters ==
  (last.op = "execute" /\ last.sent = 1) =>
    /\ [i \in 1..Len(DecodedParameters) |-> DecodedParameters[i].name]
         = (IF Len(heap[last.recv].conditions) = 0 THEN <<<<"select">>>>
            ELSE <<<<"select">>, <<"filter">>>>)
    /\ DecodedParameters[1].value
         = JoinTexts(FilterNonEmpty(<<selectText(heap[last.recv]),
                                      joinsText(heap[last.recv])>>), ",")
    /\ Len(heap[last.recv].conditions) > 0 =>
         DecodedParameters[2].value = filterText(heap[last.recv])

(***************************************************************************)
(* Realtime subscriptions (specifications SpecRealtime, SpecRealtimeFair). *)
(***************************************************************************)
ChannelLists == {<<"a">>, <<"b">>, <<"a", "b">>}

NextRealtime ==
  \/ \E channelArray \in ChannelLists : Subscribe(channelArray)
  \/ \E counter \in 0..(MaxSubscriptions - 1) : Unsubscribe(counter)
  \/ ConnectTimer
  \/ BackoffTimer
  \/ SocketConnect
  \/ \E type \in {"event", "error1008"} : Message(type)
  \/ ServerDisconnect

SpecRealtime == Init /\ [][NextRealtime]_vars

\* Timers fire and the server accepts connections.
SpecRealtimeFair ==
  /\ SpecRealtime
  /\ WF_vars(ConnectTimer) /\ WF_vars(BackoffTimer) /\ WF_vars(SocketConnect)

\* The channels listed by the subscriptions still registered.
ListedChannels(rt) ==
  UNION {Elements(rt.subscriptions[i].channels) : i \in 1..Len(rt.subscriptions)}

\* The socket is open for the channel set as it is now.
OpenForChannels ==
  realtime.socket.state = "open" /\ realtime.socket.url = realtime.channels

\* C26: whenever at least one channel is subscribed, the client eventually holds an
\* open socket for the current channel set, unless the channels are all removed or
\* a code-1008 policy error was received: after a disconnect the client did not
\* initiate a new connection is made after the backoff delay, and a subscribe to
\* the same channels after all were removed connects again.
C26_EventuallyConnected ==
  (Len(realtime.channels) > 0)
    ~> (\/ Len(realtime.channels) = 0
        \/ realtime.lastMessage = "error1008"
        \/ OpenForChannels)

\* C29: after any subscribe and unsubscribe calls the channel set is the union of
\* the channel lists of the subscriptions still registered; an unsubscribe removes
\* exactly its one subscription, and a second call of the same unsubscribe
\* function changes neither the subscriptions nor the channels.
C29_ChannelsAreUnion ==
  [][/\ Elements(realtime'.channels) = ListedChannels(realtime')
     /\ Len(realtime'.channels) = Cardinality(Elements(realtime'.channels))
     /\ realtime'.op = "unsubscribe" =>
          /\ Elements(realtime'.subscriptions)
               = {sub \in Elements(realtime.subscriptions) : sub.key # realtime'.key}
          /\ (\A sub \in Elements(realtime.subscriptions) : sub.key # realtime'.key)
                => (/\ realtime'.subscriptions = realtime.subscriptions
                    /\ realtime'.channels = realtime.channels)]_vars

\* C29 witness: of two subscriptions that share channel 'a' one was unsubscribed and
\* 'a' is still in the channel set, 'b' is not.
C29_Witness ==
  /\ realtime.op = "unsubscribe"
  /\ closures = <<<<"a", "b">>, <<"a">>>>
  /\ Len(realtime.subscriptions) = 1 /\ realtime.subscriptions[1].key = 1
  /\ realtime.channels = <<"a">>

(***************************************************************************)
(* Chunked uploads (specification SpecUpload).                             *)
(***************************************************************************)
\* Files of 1 byte up to MaxChunks chunks, at and around the chunk boundaries.
FileSizes == {k * CHUNK_SIZE + d : k \in 0..(MaxChunks - 1), d \in {1, CHUNK_SIZE}}

\* Answers with a body that holds $id 'f1', with one that holds none, and errors.
NextUpload ==
  \/ \E value \in BOOLEAN : SetSafeResponse(value)
  \/ \E size \in FileSizes : ChunkedUpload(size)
  \/ \E status \in Statuses, id \in {"f1", ""} : UploadWhole(status, id)
  \/ \E status \in Statuses, id \in {"f1", ""} : UploadChunk(status, id)

SpecUpload == Init /\ [][NextUpload]_vars

\* Math.ceil(file.size / Client.CHUNK_SIZE)
ChunksTotal == (upload.size + CHUNK_SIZE - 1) \div CHUNK_SIZE

\* C30: an upload of more than CHUNK_SIZE bytes ends after exactly
\* ceil(size / CHUNK_SIZE) calls; their content-range byte ranges start at 0, are
\* contiguous, span at most CHUNK_SIZE bytes each and the last ends at size - 1;
\* once an answer carried an $id every later chunk has it in x-nuvix-id; a file of
\* at most CHUNK_SIZE bytes goes in one call without a content-range.
C30_ChunkedUpload ==
  /\ upload.pc # "idle" => Len(upload.calls) <= ChunksTotal
  /\ upload.pc = "done" => Len(upload.calls) = ChunksTotal
  /\ (upload.pc # "idle" /\ upload.size <= CHUNK_SIZE) =>
       \A i \in 1..Len(upload.calls) : upload.calls[i].range = <<>>
  /\ (upload.pc # "idle" /\ upload.size > CHUNK_SIZE) =>
       /\ \A i \in 1..Len(upload.calls) :
            /\ Len(upload.calls[i].range) = 3
            /\ upload.calls[i].range[1]
                 = (IF i = 1 THEN 0 ELSE upload.calls[i - 1].range[2] + 1)
            /\ upload.calls[i].range[2] >= upload.calls[i].range[1]
            /\ upload.calls[i].range[2] - upload.calls[i].range[1] < CHUNK_SIZE
            /\ upload.calls[i].range[3] = upload.size
       /\ upload.pc = "done" =>
            upload.calls[Len(upload.calls)].range[2] = upload.size - 1
       /\ \A i \in 1..Len(upload.calls) : \A j \in (i + 1)..Len(upload.calls) :
            upload.served[i] # "" => upload.calls[j].id = upload.served[i]

====
